---- MODULE Spec2Model ----
(***************************************************************************)
(* Model of the OKLCH colour tool (src/src/extension.ts, first module of   *)
(* the file, lines 1-622): the palette lookup, the oklch() scanner, the    *)
(* adjacent-comment locator and the four editing commands.                 *)
(*                                                                         *)
(* Text is a sequence of one-character strings.  Numbers are fixed-point   *)
(* integers in units of 1/Scale (five decimal places); NaN is -1.          *)
(* Positions are [line, ch] records as in the host's document model;       *)
(* offsets are 0-based, the character at offset p is text[p + 1].          *)
(***************************************************************************)
EXTENDS Integers, Sequences, FiniteSets, TLC

VARIABLES
  colorMap,   \* the palette table (let colorMap)
  doc,        \* the text of the active editor's document
  editor,     \* whether vscode.window.activeTextEditor is set
  pc,         \* where the running command is: idle, picking, applying, done
  cmd,        \* the command that runs or ran last
  parsed,     \* the tokens a command keeps across its await of the picker
  target,     \* the arguments the code action passes to selectColor
  plan,       \* the WorkspaceEdit the command built
  submitted,  \* whether the command called vscode.workspace.applyEdit
  applied,    \* what applyEdit resolved to
  msg,        \* the message the command showed
  count,      \* the count the command computed for its message
  doc0,       \* the text when the command started
  scanText,   \* the text the command's token spans were scanned in
  locText,    \* the text the command's comment spans were located in
  query,      \* the last findColorName query and the entry it was taken near
  found,      \* its result
  hist,       \* the commands completed so far
  nedits,     \* edits made to the document by others while a picker was open
  choice,     \* what the picker resolved to: the item's index, 0 when dismissed
  mapFile,    \* what src/map.json holds
  mapKind,    \* the kind of value colorMap holds: array, null, object, number
  loadError,  \* whether loadColorMap showed its error message
  hover,      \* what provideHover returned last
  thrown      \* whether the last handler ended by an exception

\* The variables only activation and the hover provider write
loadVars == <<mapFile, mapKind, loadError, hover, thrown>>

vars == <<loadVars, colorMap, doc, editor, pc, cmd, parsed, target, plan, submitted, applied,
          msg, count, doc0, scanText, locText, query, found, hist, nedits, choice>>

\* ------------------------------------------------------------------ numbers

\* Number of decimal places the fixed-point numbers keep
FracDigits == 5

RECURSIVE Pow10(_)
Pow10(n) == IF n <= 0 THEN 1 ELSE 10 * Pow10(n - 1)

\* Fixed-point unit: a number x is held as the integer x * Scale.
Scale == Pow10(FracDigits)

\* n thousandths, n hundred-thousandths
Milli(n) == n * (Scale \div 1000)

Fine(n) == n * (Scale \div 100000)

\* parseFloat's NaN; an absent optional number (alpha?: number)
NaN == 0 - 1

Undef == 0 - 2

\* parseFloat's Infinity: the numeral is at or above 2^1024 - 2^970, which
\* has DoubleDigits digits, the first of them DoubleLimit
Infinity == 0 - 3

DoubleDigits == 309

DoubleLimit == <<1, 7, 9, 7, 6, 9, 3, 1, 3, 4, 8, 6, 2, 3, 1, 5, 8, 0, 7, 9, 3>>

\* The value of F at e, with e evaluated once
Let(e, F(_)) == CHOOSE r \in {F(x) : x \in {e}} : TRUE

Abs(x) == IF x < 0 THEN -x ELSE x

Min(a, b) == IF a < b THEN a ELSE b

Max(a, b) == IF a < b THEN b ELSE a

\* ---------------------------------------------------------------- characters

Digit == {"0", "1", "2", "3", "4", "5", "6", "7", "8", "9"}

\* \s of the regular expressions (the characters of it the model uses)
WS == {" ", "\n"}

\* [\d.]
NumCh == Digit \cup {"."}

\* [\d.%]
AlphaCh == NumCh \cup {"%"}

DigitVal(ch) ==
  CASE ch = "0" -> 0 [] ch = "1" -> 1 [] ch = "2" -> 2 [] ch = "3" -> 3
    [] ch = "4" -> 4 [] ch = "5" -> 5 [] ch = "6" -> 6 [] ch = "7" -> 7
    [] ch = "8" -> 8 [] ch = "9" -> 9

DigitCh(d) == <<"0", "1", "2", "3", "4", "5", "6", "7", "8", "9">>[d + 1]

\* First index j >= i with s[j] outside class C (Len(s) + 1 when none):
\* the end of a greedy run C* starting at index i.
RunEnd(s, i, C) ==
  CHOOSE j \in i..(Len(s) + 1) :
    /\ j > Len(s) \/ s[j] \notin C
    /\ \A k \in i..(j - 1) : s[k] \in C

\* s has the literal lit at index i
HasAt(s, i, lit) ==
  /\ i >= 1
  /\ i + Len(lit) - 1 <= Len(s)
  /\ \A k \in 1..Len(lit) : s[i + k - 1] = lit[k]

\* String.prototype.substring(from) on 0-based offsets
Substring(s, from) ==
  IF from >= Len(s) THEN <<>> ELSE SubSeq(s, from + 1, Len(s))

\* Text between two 0-based offsets
Slice(s, a, b) == IF b <= a THEN <<>> ELSE SubSeq(s, a + 1, b)

\* --------------------------------------------------------------- parseFloat

RECURSIVE DigitsValue(_, _, _)
\* value of the digit run s[i..j-1] read as an integer
DigitsValue(s, i, j) ==
  IF j <= i THEN 0 ELSE DigitsValue(s, i, j - 1) * 10 + DigitVal(s[j - 1])

\* The digits of s from index a on are at or above DoubleLimit
AtLimit(s, a) ==
  \/ \A k \in 1..Len(DoubleLimit) : DigitVal(s[a + k - 1]) = DoubleLimit[k]
  \/ \E k \in 1..Len(DoubleLimit) :
        /\ DigitVal(s[a + k - 1]) > DoubleLimit[k]
        /\ \A j \in 1..(k - 1) : DigitVal(s[a + j - 1]) = DoubleLimit[j]

\* parseFloat(s): the longest prefix digits* [ "." digits* ] holding at least
\* one digit, NaN when there is none, Infinity when it is too large for a
\* double.  Decimals past FracDigits are dropped.
ParseFloat(s) ==
  LET ie == RunEnd(s, 1, Digit)
      hasDot == ie <= Len(s) /\ s[ie] = "."
      fe == IF hasDot THEN RunEnd(s, ie + 1, Digit) ELSE ie
      nInt == ie - 1
      nFrac == IF hasDot THEN fe - ie - 1 ELSE 0
      kept == Min(nFrac, FracDigits)
      first == RunEnd(s, 1, {"0"})
      significant == ie - first
  IN IF nInt + nFrac = 0 THEN NaN
     ELSE IF \/ significant > DoubleDigits
             \/ significant = DoubleDigits /\ AtLimit(s, first)
       THEN Infinity
     ELSE DigitsValue(s, 1, ie) * Scale
          + (IF kept = 0 THEN 0
             ELSE DigitsValue(s, ie + 1, ie + 1 + kept) * Pow10(FracDigits - kept))

IsNaN(x) == x = NaN

\* Number -> text, as a template literal prints it: no trailing zeros, no
\* decimal point for an integer.
RECURSIVE NatText(_)
NatText(n) ==
  IF n < 10 THEN <<DigitCh(n)>> ELSE NatText(n \div 10) \o <<DigitCh(n % 10)>>

RECURSIVE FracText(_, _)
\* the k-digit decimal part f, trailing zeros stripped
FracText(f, k) ==
  IF f = 0 THEN <<>>
  ELSE <<DigitCh(f \div Pow10(k - 1))>> \o FracText(f % Pow10(k - 1), k - 1)

NumText(x) ==
  NatText(x \div Scale)
    \o (IF x % Scale = 0 THEN <<>> ELSE <<".">> \o FracText(x % Scale, FracDigits))

\* ----------------------------------------------------------------- document

\* vscode.TextDocument over the text s: lines are split at "\n".
LineBreaks(s) == {k \in 1..Len(s) : s[k] = "\n"}

LineCount(s) == 1 + Cardinality(LineBreaks(s))

\* offset at which line n (0-based) starts
LineStart(s, n) ==
  IF n = 0 THEN 0
  ELSE CHOOSE k \in LineBreaks(s) : Cardinality({j \in LineBreaks(s) : j <= k}) = n

\* offset at which line n ends (before its line break)
LineEnd(s, n) ==
  IF n + 1 >= LineCount(s) THEN Len(s) ELSE LineStart(s, n + 1) - 1

\* document.lineAt(n).text
LineText(s, n) == Slice(s, LineStart(s, n), LineEnd(s, n))

Pos(line, ch) == [line |-> line, ch |-> ch]

\* document.positionAt(offset)
PositionAt(s, off) ==
  Let(Cardinality({k \in LineBreaks(s) : k <= off}),
      LAMBDA n : Pos(n, Max(0, Min(off, Len(s))) - LineStart(s, n)))

\* document.offsetAt(position): the position is first adjusted to the text
OffsetAt(s, p) ==
  IF p.line >= LineCount(s) THEN Len(s)
  ELSE Min(LineStart(s, p.line) + p.ch, LineEnd(s, p.line))

PosBefore(p, q) == p.line < q.line \/ (p.line = q.line /\ p.ch < q.ch)

PosBeforeOrEqual(p, q) == p = q \/ PosBefore(p, q)

Range(a, b) == [start |-> a, end |-> b]

\* Range.contains(position)
RangeContains(r, p) == PosBeforeOrEqual(r.start, p) /\ PosBeforeOrEqual(p, r.end)

\* document.getText(range)
GetText(s, r) == Slice(s, OffsetAt(s, r.start), OffsetAt(s, r.end))

\* ------------------------------------------------------------------ scanner

OKLCH == <<"o", "k", "l", "c", "h", "(">>

\* absent optional text (alphaString?: string).  The alpha group of the
\* regular expression holds at least "/", so a present one is never empty.
NoText == <<>>

\* A step of a pattern: a greedy run of the class cls, at least min and, when
\* one is set, just one character long.
Step(cls, min, one) == [cls |-> cls, min |-> min, one |-> one]

\* \s*([\d.]+)\s+([\d.]+)\s+([\d.]+)
ThreeNumbers ==
  <<Step(WS, 0, FALSE), Step(NumCh, 1, FALSE), Step(WS, 1, FALSE),
    Step(NumCh, 1, FALSE), Step(WS, 1, FALSE), Step(NumCh, 1, FALSE)>>

\* (\s*\/\s*[\d.%]+)
AlphaGroup ==
  <<Step(WS, 0, FALSE), Step({"/"}, 1, TRUE), Step(WS, 0, FALSE),
    Step(AlphaCh, 1, FALSE)>>

\* \s*\)
Closing == <<Step(WS, 0, FALSE), Step({")"}, 1, TRUE)>>

\* The indices at which the steps pat[k..] start when matched from index i,
\* followed by the index after the last: Len(pat) - k + 2 indices when they
\* all match, fewer when one does not.  The classes that follow one another
\* are disjoint, so the greedy runs are the only way to match.
RECURSIVE Bounds(_, _, _, _)
Bounds(s, i, pat, k) ==
  IF k > Len(pat) THEN <<i>>
  ELSE Let(IF pat[k].one THEN Min(RunEnd(s, i, pat[k].cls), i + 1)
           ELSE RunEnd(s, i, pat[k].cls),
           LAMBDA j : IF j - i < pat[k].min THEN <<>>
                      ELSE <<i>> \o Bounds(s, j, pat, k + 1))

NoMatch(i) ==
  [ok |-> FALSE, m1 |-> <<>>, m2 |-> <<>>, m3 |-> <<>>, m4 |-> NoText,
   index |-> i - 1, stop |-> i + 1]

\* The match record for the bounds b of a pattern whose alpha group, when it
\* has one, spans steps 7 to 10.
MatchOf(s, i, b, hasAlpha) ==
  [ok |-> TRUE,
   m1 |-> SubSeq(s, b[2], b[3] - 1),
   m2 |-> SubSeq(s, b[4], b[5] - 1),
   m3 |-> SubSeq(s, b[6], b[7] - 1),
   m4 |-> IF hasAlpha THEN SubSeq(s, b[7], b[11] - 1) ELSE NoText,
   index |-> i - 1,
   stop |-> b[Len(b)]]

\* One attempt of
\*   /oklch\(\s*([\d.]+)\s+([\d.]+)\s+([\d.]+)(\s*\/\s*[\d.%]+)?\s*\)/
\* at index i: with the optional group first, then without it.  Indices are
\* 1-based; "stop" is the index after the match.
MatchAt(s, i) ==
  IF ~HasAt(s, i, OKLCH) THEN NoMatch(i)
  ELSE Let(Bounds(s, i + Len(OKLCH), ThreeNumbers \o AlphaGroup \o Closing, 1),
           LAMBDA withAlpha :
             IF Len(withAlpha) = 13 THEN MatchOf(s, i, withAlpha, TRUE)
             ELSE Let(Bounds(s, i + Len(OKLCH), ThreeNumbers \o Closing, 1),
                      LAMBDA plain :
                        IF Len(plain) = 9 THEN MatchOf(s, i, plain, FALSE)
                        ELSE NoMatch(i)))

\* str.match(/[\d.%]+/): the first run of alpha characters, NoText when none
FirstAlphaRun(str) ==
  IF \A k \in 1..Len(str) : str[k] \notin AlphaCh THEN NoText
  ELSE Let(CHOOSE k \in 1..Len(str) :
             str[k] \in AlphaCh /\ \A j \in 1..(k - 1) : str[j] \notin AlphaCh,
           LAMBDA a : SubSeq(str, a, RunEnd(str, a, AlphaCh) - 1))

\* The numeric alpha of an alpha clause (extension.ts 396-407, 463-471):
\* Undef when the clause is absent or holds no alpha characters, NaN when
\* its number does not parse; the percentage form divides by 100.
AlphaOfRun(run) ==
  IF run = NoText THEN Undef
  ELSE IF run[Len(run)] = "%"
    THEN Let(ParseFloat(SubSeq(run, 1, Len(run) - 1)),
             LAMBDA v : IF v \in {NaN, Infinity} THEN v ELSE v \div 100)
  ELSE ParseFloat(run)

AlphaOf(alphaString) ==
  IF alphaString = NoText THEN Undef ELSE AlphaOfRun(FirstAlphaRun(alphaString))

\* The loop body of parseOklchFunctionsInRange for one match: the token it
\* pushes, with offsets relative to the scanned text, or none.
Parsed(m) ==
  [l |-> ParseFloat(m.m1), c |-> ParseFloat(m.m2), h |-> ParseFloat(m.m3),
   alpha |-> AlphaOf(m.m4), alphaString |-> m.m4,
   from |-> m.index, to |-> m.stop - 1]

TokenOf(m) ==
  Let(Parsed(m),
      LAMBDA t :
        IF /\ ~IsNaN(t.l) /\ ~IsNaN(t.c) /\ ~IsNaN(t.h)
           /\ ~(\/ t.alphaString # NoText /\ t.alpha = Undef
                \/ t.alpha # Undef /\ IsNaN(t.alpha))
          THEN <<t>>
        ELSE <<>>)

\* regex.exec with the g flag, from index i on: leftmost match, then on from
\* its end.
RECURSIVE ScanFrom(_, _)
ScanFrom(s, i) ==
  IF i + Len(OKLCH) > Len(s) THEN <<>>
  ELSE IF s[i] # "o" THEN ScanFrom(s, i + 1)
  ELSE Let(MatchAt(s, i),
           LAMBDA m : IF m.ok THEN TokenOf(m) \o ScanFrom(s, m.stop)
                      ELSE ScanFrom(s, i + 1))

\* parseOklchFunctionsInRange(document, range): tokens with their ranges in
\* document positions.
Ranged(s, base, t) ==
  [l |-> t.l, c |-> t.c, h |-> t.h, alpha |-> t.alpha, alphaString |-> t.alphaString,
   range |-> Range(PositionAt(s, base + t.from), PositionAt(s, base + t.to))]

ScanText(text) == ScanFrom(text, 1)

ParseOklchFunctionsInRange(s, r) ==
  Let(OffsetAt(s, r.start),
      LAMBDA base :
        Let(Let(GetText(s, r), ScanText),
            LAMBDA toks : [k \in 1..Len(toks) |-> Ranged(s, base, toks[k])]))

\* new vscode.Range(document.positionAt(0), document.positionAt(text.length))
FullRange(s) == Range(PositionAt(s, 0), PositionAt(s, Len(s)))

\* ------------------------------------------------------------------ palette

\* approxEqual's default epsilon, 0.0001
Epsilon == Fine(10)

\* the epsilon createAnnotationComment passes, 0.001
AlphaEpsilon == Milli(1)

\* A comparison with half the tolerance
ApproxEqualHalf(a, b, epsilon) == Abs(a - b) * 2 < epsilon

ApproxEqual(a, b, epsilon) == Abs(a - b) < epsilon

\* null returned by findColorName / Array.find (palette names are not empty)
Null == <<>>

Entry(name, l, c, h) == [name |-> name, l |-> l, c |-> c, h |-> h]

\* A test that leaves the hue out
EntryMatchesNoHue(e, l, c, h) ==
  /\ Abs(e.l - l) < Fine(10)
  /\ Abs(e.c - c) < Fine(10)

\* the test of findColorName's loop for one entry
EntryMatches(e, l, c, h) ==
  /\ ApproxEqual(e.l, l, Epsilon)
  /\ ApproxEqual(e.c, c, Epsilon)
  /\ ApproxEqual(e.h, h, Epsilon)

FindColorName(cm, l, c, h) ==
  LET hits == {k \in 1..Len(cm) : EntryMatches(cm[k], l, c, h)}
  IN IF hits = {} THEN Null
     ELSE cm[CHOOSE k \in hits : \A j \in hits : k <= j].name

\* A search that returns the last entry of the name
FindEntryIndexLast(cm, name) ==
  LET hits == {k \in 1..Len(cm) : cm[k].name = name}
  IN IF hits = {} THEN 0 ELSE CHOOSE k \in hits : \A j \in hits : j <= k

\* colorMap.find(entry => entry.name === name): its index, 0 when none
FindEntryIndex(cm, name) ==
  LET hits == {k \in 1..Len(cm) : cm[k].name = name}
  IN IF hits = {} THEN 0 ELSE CHOOSE k \in hits : \A j \in hits : k <= j

\* loadColorMap: what colorMap holds afterwards, and whether the catch
\* block ran (readFileSync or JSON.parse threw)
LoadColorMap(file, before) ==
  IF file.kind \in {"unreadable", "invalid"}
    THEN [kind |-> "array", items |-> before, failed |-> TRUE]
  ELSE [kind |-> file.kind, items |-> file.items, failed |-> FALSE]

\* entry.oklch.l raises a TypeError: entry is null or has no oklch
Raises(e) == "l" \notin DOMAIN e

\* findColorName over whatever colorMap holds: for...of raises a TypeError
\* on a value that is not iterable
Threw == [threw |-> TRUE, name |-> Null]

FindColorNameIn(kind, cm, l, c, h) ==
  IF kind # "array" THEN Threw
  ELSE LET stops == {k \in 1..Len(cm) :
                       \/ Raises(cm[k])
                       \/ cm[k].l # Undef /\ EntryMatches(cm[k], l, c, h)}
       IN IF stops = {} THEN [threw |-> FALSE, name |-> Null]
          ELSE LET first == CHOOSE k \in stops : \A j \in stops : k <= j
               IN IF Raises(cm[first]) THEN Threw
                  ELSE [threw |-> FALSE, name |-> cm[first].name]

\* The entries a comparison can match: one with an undefined component
\* never does (undefined - l is NaN)
Comparable(cm) == SelectSeq(cm, LAMBDA e : ~Raises(e) /\ e.l # Undef)

\* Whether findColorName raises for one of the tokens
LookupRaises(kind, cm, parsedColors) ==
  \E g \in 1..Len(parsedColors) :
     FindColorNameIn(kind, cm, parsedColors[g].l, parsedColors[g].c, parsedColors[g].h).threw

\* ------------------------------------------------------------ text builders

\* A builder that writes the alpha clause anew from its number
CreateOklchStringRederived(entry, alphaString) ==
  OKLCH \o NumText(entry.l) \o <<" ">> \o NumText(entry.c) \o <<" ">>
        \o NumText(entry.h)
        \o (IF alphaString # NoText
              THEN <<" ", "/", " ">> \o NumText(AlphaOf(alphaString))
            ELSE <<>>)
        \o <<")">>

CreateOklchString(entry, alphaString) ==
  OKLCH \o NumText(entry.l) \o <<" ">> \o NumText(entry.c) \o <<" ">>
        \o NumText(entry.h)
        \o (IF alphaString # NoText THEN alphaString ELSE <<>>)
        \o <<")">>

\* Math.round(alpha * 100)
AlphaPercentage(alpha) == (alpha * 100 + Scale \div 2) \div Scale

\* A builder that leaves the percentage out only for an alpha of exactly 1
CreateAnnotationCommentExact(colorName, alpha) ==
  <<"/", "*", " ">> \o colorName
    \o (IF alpha # Undef /\ alpha # Scale
          THEN <<" ", "/", " ">> \o NatText((alpha * 100 + Scale \div 2) \div Scale)
                 \o <<"%">>
          ELSE <<>>)
    \o <<" ", "*", "/">>

CreateAnnotationComment(colorName, alpha) ==
  <<"/", "*", " ">> \o colorName
    \o (IF alpha # Undef /\ ~ApproxEqual(alpha, Scale, AlphaEpsilon)
          THEN <<" ", "/", " ">> \o NatText(AlphaPercentage(alpha)) \o <<"%">>
          ELSE <<>>)
    \o <<" ", "*", "/">>

Custom == <<"C", "u", "s", "t", "o", "m">>

\* ------------------------------------------------------------------ locator

\* indices from index i on at which "*/" starts
Closers(text, i) ==
  {k \in i..(Len(text) - 1) : text[k] = "*" /\ text[k + 1] = "/"}

\* the second group of the expression below, after ws characters of \s
CommentAfter(textAfter, ws) ==
  IF HasAt(textAfter, ws + 1, <<"/", "*">>) /\ Closers(textAfter, ws + 3) # {}
    THEN [ok |-> TRUE, ws |-> ws,
          len |-> (CHOOSE k \in Closers(textAfter, ws + 3) :
                     \A j \in Closers(textAfter, ws + 3) : k <= j) + 1 - ws]
  ELSE [ok |-> FALSE, ws |-> 0, len |-> 0]

\* textAfter.match(/^(\s*)(\/\*.*?\*\/)/): the lengths of the two groups
CommentMatch(textAfter) ==
  Let(textAfter,
      LAMBDA t : Let(RunEnd(t, 1, WS) - 1, LAMBDA ws : CommentAfter(t, ws)))

\* findAdjacentCommentRange(document, rangeEnd): null is [ok |-> FALSE]
NoComment(rangeEnd) ==
  [ok |-> FALSE, range |-> Range(rangeEnd, rangeEnd),
   whitespaceRange |-> Range(rangeEnd, rangeEnd)]

FindAdjacentCommentRange(s, rangeEnd) ==
  IF rangeEnd.line >= LineCount(s) THEN NoComment(rangeEnd)
  ELSE Let(CommentMatch(Substring(LineText(s, rangeEnd.line), rangeEnd.ch)),
           LAMBDA commentMatch :
             LET commentStartChar == rangeEnd.ch + commentMatch.ws
                 commentEndChar == commentStartChar + commentMatch.len
                 whitespaceStartChar == rangeEnd.ch
             IN IF commentMatch.ok
                  THEN [ok |-> TRUE,
                        range |-> Range(Pos(rangeEnd.line, commentStartChar),
                                        Pos(rangeEnd.line, commentEndChar)),
                        whitespaceRange |-> Range(Pos(rangeEnd.line, whitespaceStartChar),
                                                  Pos(rangeEnd.line, commentEndChar))]
                ELSE NoComment(rangeEnd))

\* ---------------------------------------------------------------- edit plans

\* WorkspaceEdit entries: edit.replace / edit.insert / edit.delete
Replace(r, text) == [kind |-> "replace", range |-> r, text |-> text]

Insert(p, text) == [kind |-> "insert", range |-> Range(p, p), text |-> text]

Delete(r) == [kind |-> "delete", range |-> r, text |-> <<>>]

\* The span of an op as the host resolves it against the text s
SpanOf(s, op) ==
  [a |-> OffsetAt(s, op.range.start), b |-> OffsetAt(s, op.range.end)]

\* Two spans the host refuses in one transaction: they share text, or an
\* empty one lies strictly inside the other (touching ends are accepted).
SpansOverlap(x, y) == x.a < y.b /\ y.a < x.b

\* the spans of all ops of a plan
SpansOf(s, ops) == [i \in 1..Len(ops) |-> SpanOf(s, ops[i])]

PlanOverlaps(s, ops) ==
  \E spans \in {SpansOf(s, ops)} :
    \E i, j \in 1..Len(ops) : i < j /\ SpansOverlap(spans[i], spans[j])

\* span x is not after span y
NotAfter(x, y) == x.a < y.a \/ (x.a = y.a /\ x.b <= y.b)

\* The text cur with the ops of todo applied to it last span first; spans[i]
\* is the span of ops[i] in the text before any of them was applied.
RECURSIVE ApplyOps(_, _, _, _)
ApplyOps(cur, ops, spans, todo) ==
  IF todo = {} THEN cur
  ELSE Let(CHOOSE i \in todo : \A j \in todo : NotAfter(spans[j], spans[i]),
           LAMBDA last :
             Let(Slice(cur, 0, spans[last].a) \o ops[last].text
                   \o Slice(cur, spans[last].b, Len(cur)),
                 LAMBDA next : ApplyOps(next, ops, spans, todo \ {last})))

\* vscode.workspace.applyEdit(edit) when the host accepts the transaction
ApplyEdit(s, ops) ==
  Let(SpansOf(s, ops), LAMBDA spans : ApplyOps(s, ops, spans, 1..Len(ops)))

\* ------------------------------------------------------------------ annotate

\* colorName ? colorName : 'Custom'
NameOrCustom(colorName) == IF colorName # Null THEN colorName ELSE Custom

\* A choice that replaces the whitespace before the comment too
AnnotateChoiceWide(s, color, commentString, commentInfo) ==
  IF commentInfo.ok
    THEN IF GetText(s, commentInfo.range) # commentString
           THEN <<Replace(commentInfo.whitespaceRange, commentString)>>
         ELSE <<>>
  ELSE <<Insert(color.range.end, <<" ">> \o commentString)>>

\* lines 339-352, for the comment text and the adjacent comment found
AnnotateChoice(s, color, commentString, commentInfo) ==
  IF commentInfo.ok
    THEN IF GetText(s, commentInfo.range) # commentString
           THEN <<Replace(commentInfo.range, commentString)>>
         ELSE <<>>
  ELSE <<Insert(color.range.end, <<" ">> \o commentString)>>

\* the commentString of line 334
AnnotationOf(cm, color) ==
  CreateAnnotationComment(NameOrCustom(FindColorName(cm, color.l, color.c, color.h)),
                          color.alpha)

\* The body of annotateOklchColorsHandler's loop for one token: the edit it
\* adds to the WorkspaceEdit (none when the comment is already there).
AnnotateEdit(s, cm, color) ==
  Let(AnnotationOf(cm, color),
      LAMBDA commentString :
        Let(FindAdjacentCommentRange(s, color.range.end),
            LAMBDA commentInfo : AnnotateChoice(s, color, commentString, commentInfo)))

\* for (let i = parsedColors.length - 1; i >= 0; i--)
RECURSIVE AnnotateLoop(_, _, _, _)
AnnotateLoop(s, cm, parsedColors, i) ==
  IF i = 0 THEN <<>>
  ELSE AnnotateEdit(s, cm, parsedColors[i]) \o AnnotateLoop(s, cm, parsedColors, i - 1)

\* The WorkspaceEdit annotateOklchColorsHandler builds for the text s
AnnotatePlan(s, cm) ==
  Let(ParseOklchFunctionsInRange(s, FullRange(s)),
      LAMBDA parsedColors : AnnotateLoop(s, cm, parsedColors, Len(parsedColors)))

\* -------------------------------------------------------------------- remove

\* A removal that leaves the whitespace before the comment in place
RemoveEditBare(s, color) ==
  Let(FindAdjacentCommentRange(s, color.range.end),
      LAMBDA commentInfo :
        IF commentInfo.ok THEN <<Delete(commentInfo.range)>> ELSE <<>>)

\* The body of removeOklchColorAnnotationsHandler's loop for one token
RemoveEdit(s, color) ==
  Let(CommentMatch(Substring(LineText(s, color.range.end.line), color.range.end.ch)),
      LAMBDA commentMatch :
        LET commentStartIndex == color.range.end.ch + commentMatch.ws
            commentEndIndex == commentStartIndex + commentMatch.len
            whitespaceStartIndex == color.range.end.ch
        IN IF commentMatch.ok
             THEN <<Delete(Range(Pos(color.range.end.line, whitespaceStartIndex),
                                 Pos(color.range.end.line, commentEndIndex)))>>
           ELSE <<>>)

RECURSIVE RemoveLoop(_, _, _)
RemoveLoop(s, parsedColors, i) ==
  IF i = 0 THEN <<>>
  ELSE RemoveEdit(s, parsedColors[i]) \o RemoveLoop(s, parsedColors, i - 1)

\* The WorkspaceEdit removeOklchColorAnnotationsHandler builds for the text s
RemovePlan(s) ==
  Let(ParseOklchFunctionsInRange(s, FullRange(s)),
      LAMBDA parsedColors : RemoveLoop(s, parsedColors, Len(parsedColors)))

\* ------------------------------------------------------------- replacement

\* A helper that takes the whitespace before the comment with the comment
AddReplacementToEditWide(colorRange, commentInfo, newOklch, newComment) ==
  <<Replace(colorRange, newOklch)>>
    \o (IF commentInfo.ok THEN <<Replace(commentInfo.whitespaceRange, newComment)>>
        ELSE <<>>)

\* addReplacementToEdit: the edits it adds
AddReplacementToEdit(colorRange, commentInfo, newOklch, newComment) ==
  <<Replace(colorRange, newOklch)>>
    \o (IF commentInfo.ok THEN <<Replace(commentInfo.range, newComment)>> ELSE <<>>)

\* ---------------------------------------------------------------- gray scale

Slate == <<"S", "l", "a", "t", "e">>

Gray == <<"G", "r", "a", "y">>

Zinc == <<"Z", "i", "n", "c">>

Neutral == <<"N", "e", "u", "t", "r", "a", "l">>

Stone == <<"S", "t", "o", "n", "e">>

GRAY_SCALE_NAMES == <<Slate, Gray, Zinc, Neutral, Stone>>

\* colorName.match(/\s(\d+)$/): the shade, Null when there is none
ExtractShade(colorName) ==
  LET nonDigits == {k \in 1..Len(colorName) : colorName[k] \notin Digit}
      before == IF nonDigits = {} THEN 0
                ELSE CHOOSE k \in nonDigits : \A j \in nonDigits : j <= k
  IN IF before >= 1 /\ before < Len(colorName) /\ colorName[before] \in WS
       THEN SubSeq(colorName, before + 1, Len(colorName))
     ELSE Null

IsGrayScaleColor(colorName) ==
  \E k \in 1..Len(GRAY_SCALE_NAMES) :
     HasAt(colorName, 1, GRAY_SCALE_NAMES[k] \o <<" ">>)

\* A step that keeps every token that has a name
GrayInfoOfNamed(cm, parsedColor) ==
  LET colorName == FindColorName(cm, parsedColor.l, parsedColor.c, parsedColor.h)
  IN IF colorName # Null
       THEN <<[l |-> parsedColor.l, c |-> parsedColor.c, h |-> parsedColor.h,
               alpha |-> parsedColor.alpha, alphaString |-> parsedColor.alphaString,
               range |-> parsedColor.range,
               originalName |-> colorName, shade |-> <<>>]>>
     ELSE <<>>

\* Step 1 of convertGrayScaleHandler for one token: the GrayColorInfo it
\* pushes, if any.
GrayInfoOf(cm, parsedColor) ==
  LET colorName == FindColorName(cm, parsedColor.l, parsedColor.c, parsedColor.h)
      shade == ExtractShade(colorName)
  IN IF colorName # Null /\ IsGrayScaleColor(colorName) /\ shade # Null
       THEN <<[l |-> parsedColor.l, c |-> parsedColor.c, h |-> parsedColor.h,
               alpha |-> parsedColor.alpha, alphaString |-> parsedColor.alphaString,
               range |-> parsedColor.range,
               originalName |-> colorName, shade |-> shade]>>
     ELSE <<>>

RECURSIVE GrayColorsFrom(_, _, _)
GrayColorsFrom(cm, allParsedColors, i) ==
  IF i > Len(allParsedColors) THEN <<>>
  ELSE GrayInfoOf(cm, allParsedColors[i]) \o GrayColorsFrom(cm, allParsedColors, i + 1)

GrayColorsToConvert(s, cm) ==
  Let(ParseOklchFunctionsInRange(s, FullRange(s)),
      LAMBDA allParsedColors : GrayColorsFrom(cm, allParsedColors, 1))

\* Step 3 of convertGrayScaleHandler for one gray token, read against the
\* text s the document holds when the picker has resolved.
ConvertEdit(s, cm, grayInfo, targetScaleName) ==
  LET targetColorName == targetScaleName \o <<" ">> \o grayInfo.shade
  IN Let(FindEntryIndex(cm, targetColorName),
         LAMBDA k :
           IF k # 0
             THEN Let(FindAdjacentCommentRange(s, grayInfo.range.end),
                      LAMBDA commentInfo :
                        AddReplacementToEdit(
                          grayInfo.range,
                          commentInfo,
                          CreateOklchString(cm[k], grayInfo.alphaString),
                          CreateAnnotationComment(targetColorName, grayInfo.alpha)))
           ELSE <<>>)

\* A loop that visits the tokens from first to last
RECURSIVE ConvertLoopForward(_, _, _, _, _)
ConvertLoopForward(s, cm, grays, targetScaleName, i) ==
  IF i = 0 THEN <<>>
  ELSE ConvertLoopForward(s, cm, grays, targetScaleName, i - 1)
         \o ConvertEdit(s, cm, grays[i], targetScaleName)

RECURSIVE ConvertLoop(_, _, _, _, _)
ConvertLoop(s, cm, grays, targetScaleName, i) ==
  IF i = 0 THEN <<>>
  ELSE ConvertEdit(s, cm, grays[i], targetScaleName)
         \o ConvertLoop(s, cm, grays, targetScaleName, i - 1)

\* A count of all gray tokens, converted or not
ConvertedCountAll(cm, grays, targetScaleName) == Len(grays)

\* convertedCount after the loop
ConvertedCount(cm, grays, targetScaleName) ==
  Cardinality({i \in 1..Len(grays) :
                 FindEntryIndex(cm, targetScaleName \o <<" ">> \o grays[i].shade) # 0})

\* ------------------------------------------------------------ replace colour

\* document.lineAt(n).range
LineRange(s, n) == Range(Pos(n, 0), Pos(n, LineEnd(s, n) - LineStart(s, n)))

\* the loop of provideCodeActions: the first token that holds the position
TargetColor(parsedColorsOnLine, p) ==
  IF \A k \in 1..Len(parsedColorsOnLine) : ~RangeContains(parsedColorsOnLine[k].range, p)
    THEN [found |-> FALSE, range |-> Range(p, p), alphaString |-> NoText]
  ELSE Let(CHOOSE k \in 1..Len(parsedColorsOnLine) :
             /\ RangeContains(parsedColorsOnLine[k].range, p)
             /\ \A j \in 1..(k - 1) : ~RangeContains(parsedColorsOnLine[j].range, p),
           LAMBDA first :
             [found |-> TRUE, range |-> parsedColorsOnLine[first].range,
              alphaString |-> parsedColorsOnLine[first].alphaString])

\* provideCodeActions for an empty selection at position p: the arguments of
\* the selectColor command (found |-> FALSE when it returns no action).
ProvideCodeActions(s, p) ==
  Let(ParseOklchFunctionsInRange(s, LineRange(s, p.line)),
      LAMBDA parsedColorsOnLine : TargetColor(parsedColorsOnLine, p))

\* hoverText of provideHover for a name and an alpha
HoverText(colorName, alpha) ==
  <<"*", "*">> \o colorName \o <<"*", "*">>
    \o (IF alpha # Undef /\ AlphaPercentage(alpha) # 100
          THEN <<" ", "/", " ">> \o NatText(AlphaPercentage(alpha)) \o <<"%">>
        ELSE <<>>)

\* provideHover(document, position): the hover, Null when there is none
ProvideHover(kind, cm, s, p) ==
  Let(ParseOklchFunctionsInRange(s, LineRange(s, p.line)),
      LAMBDA parsedColors :
        LET holds == {k \in 1..Len(parsedColors) : RangeContains(parsedColors[k].range, p)}
        IN IF holds = {} THEN [threw |-> FALSE, hover |-> Null]
           ELSE LET color == parsedColors[CHOOSE k \in holds : \A j \in holds : k <= j]
                    colorName == FindColorNameIn(kind, cm, color.l, color.c, color.h)
                IN IF colorName.threw THEN [threw |-> TRUE, hover |-> Null]
                   ELSE IF colorName.name = Null THEN [threw |-> FALSE, hover |-> Null]
                   ELSE [threw |-> FALSE,
                         hover |-> [text |-> HoverText(colorName.name, color.alpha),
                                    range |-> color.range]])

\* originalNumericAlpha of selectColorHandler (a NaN becomes undefined)
OriginalNumericAlpha(originalAlphaString) ==
  LET a == AlphaOf(originalAlphaString)
  IN IF IsNaN(a) THEN Undef ELSE a

\* The WorkspaceEdit selectColorHandler builds once an entry is picked, read
\* against the text s the document holds then.
SelectPlan(s, selectedEntry, targetRange, originalAlphaString) ==
  Let(FindAdjacentCommentRange(s, targetRange.end),
      LAMBDA commentInfo :
        AddReplacementToEdit(
          targetRange,
          commentInfo,
          CreateOklchString(selectedEntry, originalAlphaString),
          CreateAnnotationComment(selectedEntry.name,
                                  OriginalNumericAlpha(originalAlphaString))))

\* -------------------------------------------------------------------- inputs

White == <<"W", "h", "i", "t", "e">>

Shade500 == <<"5", "0", "0">>

Shade700 == <<"7", "0", "0">>

Named(scale, shade) == scale \o <<" ">> \o shade

\* Palettes of the model: map.json is not part of the sources.  The values
\* are the ones the specification's scenarios use.
PaletteFull ==
  <<Entry(White, Milli(985), 0, 0),
    Entry(Named(Slate, Shade500), Milli(554), Milli(46), Milli(257417)),
    Entry(Named(Slate, Shade700), Milli(372), Milli(44), Milli(257287)),
    Entry(Named(Zinc, Shade500), Milli(552), Milli(16), Milli(285938))>>

PaletteWhite == <<Entry(White, Milli(985), 0, 0)>>

Palettes == {PaletteFull, PaletteWhite}

\* oklch(0.985 0 0)
TokWhite == OKLCH \o <<"0", ".", "9", "8", "5", " ", "0", " ", "0", ")">>

\* oklch(0.554 0.046 257.417 / 15%)
TokSlateAlpha ==
  OKLCH \o <<"0", ".", "5", "5", "4", " ", "0", ".", "0", "4", "6", " ",
             "2", "5", "7", ".", "4", "1", "7", " ", "/", " ", "1", "5", "%", ")">>

CommentOpen == <<" ", "/", "*", " ">>

CommentClose == <<" ", "*", "/">>

\* " /* White */"
WhiteComment == CommentOpen \o White \o CommentClose

\* oklch(0.985 0 0 / 0.9995)
TokWhiteOpaque ==
  OKLCH \o <<"0", ".", "9", "8", "5", " ", "0", " ", "0", " ", "/", " ",
             "0", ".", "9", "9", "9", "5", ")">>

Tokens == {TokWhite, TokSlateAlpha, TokWhiteOpaque}

\* What follows a token in a generated document
Trailers == {<<";", "\n">>, WhiteComment, CommentOpen, CommentClose}

Items == {t \o r : t \in Tokens, r \in Trailers}

\* Number of items a generated document holds at most
MaxItems == 2

RECURSIVE DocsOf(_)
DocsOf(n) ==
  IF n = 0 THEN {<<>>}
  ELSE LET shorter == DocsOf(n - 1)
       IN shorter \cup {d \o i : d \in shorter, i \in Items}

\* color: oklch(0.985 0 0);
LineWhite == <<"c", "o", "l", "o", "r", ":", " ">> \o TokWhite \o <<";">>

\* oklch(0.372 0.044 257.287)
TokSlate700 ==
  OKLCH \o <<"0", ".", "3", "7", "2", " ", "0", ".", "0", "4", "4", " ",
             "2", "5", "7", ".", "2", "8", "7", ")">>

\* A Slate 500 token and a Slate 700 token, each on a line of its own
LinesGray == TokSlateAlpha \o <<";", "\n">> \o TokSlate700 \o <<";", "\n">>

\* oklch(0.55405 0.046 257.417): Slate 500 written 0.00005 off in l
TokSlateNear ==
  OKLCH \o <<"0", ".", "5", "5", "4", "0", "5", " ", "0", ".", "0", "4", "6", " ",
             "2", "5", "7", ".", "4", "1", "7", ")">>

\* oklch(0.5542 0.046 257.417)
TokSlateOff ==
  OKLCH \o <<"0", ".", "5", "5", "4", "2", " ", "0", ".", "0", "4", "6", " ",
             "2", "5", "7", ".", "4", "1", "7", ")">>

ScenarioDocs == {LineWhite, LinesGray, TokSlateNear \o <<";", "\n">>}

\* A palette in which two entries bear the same name
PaletteTwin ==
  <<Entry(Named(Slate, Shade500), Milli(554), Milli(46), Milli(257417)),
    Entry(Named(Slate, Shade500), Milli(554) + Fine(20), Milli(46), Milli(257417))>>

\* The documents edited under that palette
TwinDocs == {t \o <<";", "\n">> : t \in {TokSlateAlpha, TokSlateOff}}

Docs == DocsOf(MaxItems) \cup ScenarioDocs

\* Characters another party types at the start of the document while a
\* picker is open
UserChars == {" ", "\n"}

\* Number of such edits in one run
MaxUserEdits == 1

\* Number of commands run one after the other (SpecBatch)
MaxCmds == 2

NoTarget == [found |-> FALSE, range |-> Range(Pos(0, 0), Pos(0, 0)), alphaString |-> NoText]

NoQuery == [k |-> 0, dl |-> 0, dc |-> 0, dh |-> 0, l |-> 0, c |-> 0, h |-> 0]

\* Number of entries a palette of the lookup specification holds at most
MaxEntries == 2

\* Lightness values of its entries: 0.985, 0.98492 and 0.98555
LookupLs == {Milli(985), Milli(985) - Fine(8), Milli(985) + Fine(55)}

LookupEntries == {Entry(n, l, 0, 0) : n \in {White, Named(Slate, Shade500)}, l \in LookupLs}

RECURSIVE PalettesOf(_)
PalettesOf(n) ==
  IF n = 0 THEN {<<>>}
  ELSE LET shorter == PalettesOf(n - 1)
       IN shorter \cup {Append(cm, e) : cm \in shorter, e \in LookupEntries}

LookupPalettes == PalettesOf(MaxEntries)

\* How far from an entry a query lies, per component
Shifts == {0, Fine(5), Fine(9), Fine(10), Fine(50)}

\* What map.json holds: kind is unreadable (no such file), invalid (not
\* JSON), or the kind of the JSON value, whose elements are items for an array
MapFile(kind, items) == [kind |-> kind, items |-> items]

\* Elements of the array that are not {name, oklch: {l, c, h}} records:
\* null, {"name": ...}, and {"name": ..., "oklch": {}}
NullRecord == [null |-> TRUE]

NoOklch(name) == [name |-> name]

EmptyOklch(name) == Entry(name, Undef, Undef, Undef)

MapFiles ==
  {MapFile(k, <<>>) : k \in {"unreadable", "invalid", "null", "object", "number"}}
    \cup {MapFile("array", a) :
            a \in {PaletteWhite, PaletteFull, <<EmptyOklch(White)>>,
                   <<NoOklch(White)>>, <<NullRecord>>}}

Init ==
  /\ \/ colorMap \in Palettes /\ editor = TRUE /\ doc \in Docs
     \/ colorMap \in Palettes /\ editor = FALSE /\ doc = <<>>
     \/ colorMap = PaletteTwin /\ editor = TRUE /\ doc \in TwinDocs
  /\ pc = "idle"
  /\ cmd = "none"
  /\ parsed = <<>>
  /\ target = NoTarget
  /\ plan = <<>>
  /\ submitted = FALSE
  /\ applied = FALSE
  /\ msg = "none"
  /\ count = 0
  /\ doc0 = doc
  /\ scanText = <<>>
  /\ locText = <<>>
  /\ query = NoQuery
  /\ found = Null
  /\ hist = <<>>
  /\ nedits = 0
  /\ choice = 0
  /\ mapFile = MapFile("array", colorMap)
  /\ mapKind = "array"
  /\ loadError = FALSE
  /\ hover = Null
  /\ thrown = FALSE

\* ------------------------------------------------------------------- actions

\* What a completed command leaves in hist
Done(c, result, before, after, ops) ==
  [cmd |-> c, result |-> result, before |-> before, after |-> after, plan |-> ops]

\* A command returns without having built an edit
Finish(c, m) ==
  /\ pc' = "done"
  /\ cmd' = c
  /\ msg' = m
  /\ plan' = <<>>
  /\ submitted' = FALSE
  /\ applied' = FALSE
  /\ doc0' = doc
  /\ hist' = Append(hist, Done(c, "nothing", doc, doc, <<>>))
  /\ UNCHANGED <<loadVars, colorMap, doc, editor, target, query, found, nedits, choice>>

\* if (!editor) { showInformationMessage('No active editor found.'); return; }
NoEditor ==
  /\ pc = "idle"
  /\ ~editor
  /\ \E c \in {"annotate", "remove", "convert"} : Finish(c, "No active editor found.")
  /\ UNCHANGED <<parsed, count, scanText, locText>>

\* annotateOklchColorsHandler up to its await of applyEdit
Annotate ==
  /\ pc = "idle"
  /\ editor
  /\ \E parsedColors \in {ParseOklchFunctionsInRange(doc, FullRange(doc))} :
        IF Len(parsedColors) = 0
          THEN /\ Finish("annotate", "No OKLCH colors found to annotate.")
               /\ UNCHANGED <<parsed, count, scanText, locText>>
        ELSE /\ plan' = AnnotatePlan(doc, colorMap)
             /\ count' = Len(parsedColors)
             /\ submitted' = TRUE
             /\ pc' = "applying"
             /\ cmd' = "annotate"
             /\ doc0' = doc
             /\ scanText' = doc
             /\ locText' = doc
             /\ UNCHANGED <<loadVars, colorMap, doc, editor, parsed, target, applied, msg,
                            query, found, hist, nedits, choice>>

\* removeOklchColorAnnotationsHandler up to its await of applyEdit
Remove ==
  /\ pc = "idle"
  /\ editor
  /\ \E parsedColors \in {ParseOklchFunctionsInRange(doc, FullRange(doc))},
        ops \in {RemovePlan(doc)} :
        IF Len(parsedColors) = 0
          THEN /\ Finish("remove", "No OKLCH colors found.")
               /\ UNCHANGED <<parsed, count, scanText, locText>>
        ELSE IF Len(ops) = 0
          THEN /\ Finish("remove", "No OKLCH Annotations found to remove.")
               /\ count' = 0
               /\ scanText' = doc
               /\ locText' = doc
               /\ UNCHANGED parsed
        ELSE /\ plan' = ops
             /\ count' = Len(ops)
             /\ submitted' = TRUE
             /\ pc' = "applying"
             /\ cmd' = "remove"
             /\ doc0' = doc
             /\ scanText' = doc
             /\ locText' = doc
             /\ UNCHANGED <<loadVars, colorMap, doc, editor, parsed, target, applied, msg,
                            query, found, hist, nedits, choice>>

\* convertGrayScaleHandler up to its await of showQuickPick
StartConvert ==
  /\ pc = "idle"
  /\ editor
  /\ \E grayColorsToConvert \in {GrayColorsToConvert(doc, colorMap)} :
        IF Len(grayColorsToConvert) = 0
          THEN /\ Finish("convert",
                         "No recognized Tailwind gray scale colors found to convert.")
               /\ UNCHANGED <<parsed, count, scanText, locText>>
        ELSE /\ parsed' = grayColorsToConvert
             /\ pc' = "picking"
             /\ cmd' = "convert"
             /\ doc0' = doc
             /\ scanText' = doc
             /\ UNCHANGED <<loadVars, colorMap, doc, editor, target, plan, submitted, applied,
                            msg, count, locText, query, found, hist, nedits, choice>>

\* What convertGrayScaleHandler does, without suspending, once the picker
\* has resolved to the k-th gray scale.
AfterScalePick(k) ==
  \E targetScaleName \in {GRAY_SCALE_NAMES[k]} :
  \E ops \in {ConvertLoop(doc, colorMap, parsed, targetScaleName, Len(parsed))},
     convertedCount \in {ConvertedCount(colorMap, parsed, targetScaleName)} :
     /\ count' = convertedCount
     /\ choice' = k
     /\ locText' = doc
     /\ IF convertedCount > 0
          THEN /\ plan' = ops
               /\ submitted' = TRUE
               /\ pc' = "applying"
               /\ UNCHANGED <<msg, hist>>
        ELSE /\ plan' = ops
             /\ submitted' = FALSE
             /\ pc' = "done"
             /\ msg' = "No colors were converted (target shades might be missing)."
             /\ hist' = Append(hist, Done("convert", "nothing", doc0, doc, ops))
     /\ UNCHANGED <<loadVars, colorMap, doc, editor, cmd, parsed, target, applied, doc0,
                    scanText, query, found, nedits>>

PickScale ==
  /\ pc = "picking"
  /\ cmd = "convert"
  /\ \E k \in 1..Len(GRAY_SCALE_NAMES) : AfterScalePick(k)

\* The code action is computed for the cursor position p and its command is
\* run: selectColorHandler up to its await of showQuickPick.
StartSelect ==
  /\ pc = "idle"
  /\ editor
  /\ \E o \in 0..Len(doc) :
       \E action \in {ProvideCodeActions(doc, PositionAt(doc, o))} :
          /\ action.found
          /\ target' = action
  /\ pc' = "picking"
  /\ cmd' = "select"
  /\ doc0' = doc
  /\ scanText' = doc
  /\ UNCHANGED <<loadVars, colorMap, doc, editor, parsed, plan, submitted, applied, msg, count,
                 locText, query, found, hist, nedits, choice>>

\* What selectColorHandler does, without suspending, once the picker has
\* resolved to the k-th palette entry.
AfterColorPick(k) ==
  /\ plan' = SelectPlan(doc, colorMap[k], target.range, target.alphaString)
  /\ choice' = k
  /\ submitted' = TRUE
  /\ pc' = "applying"
  /\ locText' = doc
  /\ UNCHANGED <<loadVars, colorMap, doc, editor, cmd, parsed, target, applied, msg, count,
                 doc0, scanText, query, found, hist, nedits>>

PickColor ==
  /\ pc = "picking"
  /\ cmd = "select"
  /\ \E k \in 1..Len(colorMap) : AfterColorPick(k)

\* A dismissal after which the handler goes on to submit an empty edit
AfterCancelSubmits ==
  /\ pc' = "applying"
  /\ choice' = 0
  /\ plan' = <<>>
  /\ submitted' = TRUE
  /\ locText' = doc
  /\ UNCHANGED <<loadVars, colorMap, doc, editor, cmd, parsed, target, applied, msg, count,
                 doc0, scanText, query, found, hist, nedits>>

\* What either handler does when showQuickPick resolves to undefined
AfterCancel ==
  /\ pc' = "done"
  /\ choice' = 0
  /\ plan' = <<>>
  /\ submitted' = FALSE
  /\ hist' = Append(hist, Done(cmd, "cancelled", doc0, doc, <<>>))
  /\ UNCHANGED <<loadVars, colorMap, doc, editor, cmd, parsed, target, applied, msg, count,
                 doc0, scanText, locText, query, found, nedits>>

CancelPick ==
  /\ pc = "picking"
  /\ AfterCancel

\* The document changes while the picker is open (the handler holds the live
\* TextDocument, not a copy of its text).
UserEdit ==
  /\ pc = "picking"
  /\ nedits < MaxUserEdits
  /\ \E ch \in UserChars : doc' = <<ch>> \o doc
  /\ nedits' = nedits + 1
  /\ UNCHANGED <<loadVars, colorMap, editor, pc, cmd, parsed, target, plan, submitted, applied,
                 msg, count, doc0, scanText, locText, query, found, hist, choice>>

\* The message a handler shows once applyEdit has resolved
ResultMessage(c, success) ==
  CASE c = "annotate" ->
         IF success THEN "Annotated N OKLCH color(s)." ELSE "Failed to apply annotations."
    [] c = "remove" ->
         IF success THEN "Removed N OKLCH color annotation(s)."
         ELSE "Failed to remove annotations."
    [] c = "convert" ->
         IF success THEN "Converted N gray scale color(s)."
         ELSE "Failed to apply gray scale conversion."
    [] OTHER -> "none"

\* Whether the host takes the transaction: never one with overlapping spans
HostAccepts(s, ops, willing) == willing /\ ~PlanOverlaps(s, ops)

\* vscode.workspace.applyEdit resolves: the transaction lands whole or not at
\* all, and the handler shows its message.
HostResolve ==
  /\ pc = "applying"
  /\ \E willing \in BOOLEAN :
       \E success \in {HostAccepts(doc, plan, willing)} :
       \E after \in {IF success THEN ApplyEdit(doc, plan) ELSE doc} :
          /\ doc' = after
          /\ applied' = success
          /\ msg' = ResultMessage(cmd, success)
          /\ hist' = Append(hist, Done(cmd, IF success THEN "applied" ELSE "rejected",
                                       doc0, after, plan))
  /\ pc' = "done"
  /\ UNCHANGED <<loadVars, colorMap, editor, cmd, parsed, target, plan, submitted, count, doc0,
                 scanText, locText, query, found, nedits, choice>>

\* The user runs another command once the last one has ended
Again ==
  /\ pc = "done"
  /\ Len(hist) < MaxCmds
  /\ pc' = "idle"
  /\ plan' = <<>>
  /\ submitted' = FALSE
  /\ applied' = FALSE
  /\ msg' = "none"
  /\ count' = 0
  /\ choice' = 0
  /\ UNCHANGED <<loadVars, colorMap, doc, editor, cmd, parsed, target, doc0, scanText, locText,
                 query, found, nedits, hist>>

\* A call of findColorName with a query at the given distance from entry k
Lookup ==
  /\ pc = "idle"
  /\ \E k \in 1..Len(colorMap), dl \in Shifts, dc \in {0, Fine(10)}, dh \in {0, Fine(10)} :
       /\ query' = [k |-> k, dl |-> dl, dc |-> dc, dh |-> dh,
                    l |-> colorMap[k].l + dl, c |-> colorMap[k].c + dc,
                    h |-> colorMap[k].h + dh]
       /\ found' = FindColorName(colorMap, colorMap[k].l + dl, colorMap[k].c + dc,
                                 colorMap[k].h + dh)
  /\ UNCHANGED <<loadVars, colorMap, doc, editor, pc, cmd, parsed, target, plan, submitted,
                 applied, msg, count, doc0, scanText, locText, hist, nedits, choice>>

\* activate: loadColorMap reads map.json into colorMap
Activate ==
  /\ pc = "inactive"
  /\ \E r \in {LoadColorMap(mapFile, colorMap)} :
        /\ colorMap' = r.items
        /\ mapKind' = r.kind
        /\ loadError' = r.failed
  /\ pc' = "idle"
  /\ UNCHANGED <<mapFile, hover, thrown, doc, editor, cmd, parsed, target, plan,
                 submitted, applied, msg, count, doc0, scanText, locText, query, found,
                 hist, nedits, choice>>

\* The host asks for the hover at a position of the document
Hover ==
  /\ pc = "idle"
  /\ \E o \in 0..Len(doc) :
       \E r \in {ProvideHover(mapKind, colorMap, doc, PositionAt(doc, o))} :
          /\ hover' = r.hover
          /\ thrown' = r.threw
  /\ pc' = "done"
  /\ cmd' = "hover"
  /\ UNCHANGED <<mapFile, mapKind, loadError, colorMap, doc, editor, parsed, target,
                 plan, submitted, applied, msg, count, doc0, scanText, locText, query,
                 found, hist, nedits, choice>>

\* annotateOklchColorsHandler up to its await of applyEdit, over whatever
\* colorMap holds: an exception of findColorName ends the handler
AnnotateLoaded ==
  /\ pc = "idle"
  /\ editor
  /\ \E parsedColors \in {ParseOklchFunctionsInRange(doc, FullRange(doc))} :
        IF Len(parsedColors) = 0
          THEN /\ Finish("annotate", "No OKLCH colors found to annotate.")
               /\ UNCHANGED <<parsed, count, scanText, locText>>
        ELSE IF LookupRaises(mapKind, colorMap, parsedColors)
          THEN /\ thrown' = TRUE
               /\ pc' = "done"
               /\ cmd' = "annotate"
               /\ doc0' = doc
               /\ hist' = Append(hist, Done("annotate", "raised", doc, doc, <<>>))
               /\ UNCHANGED <<mapFile, mapKind, loadError, hover, colorMap, doc, editor,
                              parsed, target, plan, submitted, applied, msg, count,
                              scanText, locText, query, found, nedits, choice>>
        ELSE /\ plan' = AnnotatePlan(doc, Comparable(colorMap))
             /\ count' = Len(parsedColors)
             /\ submitted' = TRUE
             /\ pc' = "applying"
             /\ cmd' = "annotate"
             /\ doc0' = doc
             /\ scanText' = doc
             /\ locText' = doc
             /\ UNCHANGED <<loadVars, colorMap, doc, editor, parsed, target, applied,
                            msg, query, found, hist, nedits, choice>>

\* A call of parseOklchFunctionsInRange: over the whole document, as the
\* commands make it, or over one line, as the providers make it
Scan ==
  /\ pc = "idle"
  /\ \E r \in {FullRange(doc)} \cup {LineRange(doc, n) : n \in 0..(LineCount(doc) - 1)} :
        /\ parsed' = ParseOklchFunctionsInRange(doc, r)
        /\ scanText' = GetText(doc, r)
  /\ pc' = "done"
  /\ cmd' = "scan"
  /\ UNCHANGED <<loadVars, colorMap, doc, editor, target, plan, submitted, applied, msg,
                 count, doc0, locText, query, found, hist, nedits, choice>>

Next ==
  \/ NoEditor
  \/ Annotate
  \/ Remove
  \/ StartConvert
  \/ PickScale
  \/ StartSelect
  \/ PickColor
  \/ CancelPick
  \/ UserEdit
  \/ HostResolve

Spec == Init /\ [][Next]_vars

\* Commands run one after the other on the same document
InitBatch == Init /\ editor

NextBatch ==
  \/ Annotate
  \/ Remove
  \/ HostResolve
  \/ Again

SpecBatch == InitBatch /\ [][NextBatch]_vars

\* Palette lookups
InitLookup ==
  /\ colorMap \in LookupPalettes
  /\ editor = FALSE
  /\ doc = <<>>
  /\ pc = "idle"
  /\ cmd = "none"
  /\ parsed = <<>>
  /\ target = NoTarget
  /\ plan = <<>>
  /\ submitted = FALSE
  /\ applied = FALSE
  /\ msg = "none"
  /\ count = 0
  /\ doc0 = doc
  /\ scanText = <<>>
  /\ locText = <<>>
  /\ query = NoQuery
  /\ found = Null
  /\ hist = <<>>
  /\ nedits = 0
  /\ choice = 0
  /\ mapFile = MapFile("array", colorMap)
  /\ mapKind = "array"
  /\ loadError = FALSE
  /\ hover = Null
  /\ thrown = FALSE

NextLookup == Lookup

SpecLookup == InitLookup /\ [][NextLookup]_vars

\* The scanner on its own, over literals written in many ways
Nines == [k \in 1..DoubleDigits |-> "9"]

\* What stands for L
ScanLs ==
  {<<"0", ".", "5">>, <<"1", ".", "2", ".", "3">>, <<".">>, <<"5">>,
   <<"0", ".", ".", "5">>, <<".", "5">>}

\* What stands between H and the closing parenthesis
ScanAlphas ==
  {<<>>, <<" ", "/", " ", "5", "0", "%">>, <<" ", "/", " ", "5", "0", "%", "%">>,
   <<" ", "/", " ", ".">>, <<" ", "/", " ", "%">>, <<"/", "0", ".", "8">>,
   <<" ", "/", " ", "5", "%", "0">>, <<" ", "/", " ">> \o Nines}

\* What follows the literal
ScanRests == {<<>>, <<";", "\n">> \o TokWhite}

ScanDocs ==
  {OKLCH \o l \o <<" ", "0", " ", "0">> \o a \o <<")">> \o r :
     l \in ScanLs, a \in ScanAlphas, r \in ScanRests}

InitScan ==
  /\ doc \in ScanDocs
  /\ colorMap = PaletteWhite
  /\ editor = TRUE
  /\ pc = "idle"
  /\ cmd = "none"
  /\ parsed = <<>>
  /\ target = NoTarget
  /\ plan = <<>>
  /\ submitted = FALSE
  /\ applied = FALSE
  /\ msg = "none"
  /\ count = 0
  /\ doc0 = doc
  /\ scanText = <<>>
  /\ locText = <<>>
  /\ query = NoQuery
  /\ found = Null
  /\ hist = <<>>
  /\ nedits = 0
  /\ choice = 0
  /\ mapFile = MapFile("array", colorMap)
  /\ mapKind = "array"
  /\ loadError = FALSE
  /\ hover = Null
  /\ thrown = FALSE

NextScan == Scan

SpecScan == InitScan /\ [][NextScan]_vars

\* Activation and the first use of the palette: src/map.json holds any of
\* MapFiles
\* oklch(0.985 0 0 / 0.996)
TokWhiteAlmost ==
  OKLCH \o <<"0", ".", "9", "8", "5", " ", "0", " ", "0", " ", "/", " ",
             "0", ".", "9", "9", "6", ")">>

LoadDocs ==
  ScenarioDocs
    \cup {<<>>, TokSlateAlpha \o <<";", "\n">> \o TokWhite, TokWhiteAlmost, TokWhiteOpaque}

InitLoad ==
  /\ mapFile \in MapFiles
  /\ colorMap = <<>>
  /\ mapKind = "array"
  /\ loadError = FALSE
  /\ hover = Null
  /\ thrown = FALSE
  /\ editor = TRUE
  /\ doc \in LoadDocs
  /\ pc = "inactive"
  /\ cmd = "none"
  /\ parsed = <<>>
  /\ target = NoTarget
  /\ plan = <<>>
  /\ submitted = FALSE
  /\ applied = FALSE
  /\ msg = "none"
  /\ count = 0
  /\ doc0 = doc
  /\ scanText = <<>>
  /\ locText = <<>>
  /\ query = NoQuery
  /\ found = Null
  /\ hist = <<>>
  /\ nedits = 0
  /\ choice = 0

NextLoad ==
  \/ Activate
  \/ Hover
  \/ AnnotateLoaded
  \/ HostResolve

SpecLoad == InitLoad /\ [][NextLoad]_vars

\* ------------------------------------------------------------------ properties

\* The tokens of the text s
TokensOf(s) == ParseOklchFunctionsInRange(s, FullRange(s))

\* No token of s is followed on its line by whitespace and a block comment
NoAdjacentComment(s) ==
  \A tok \in {TokensOf(s)[i] : i \in 1..Len(TokensOf(s))} :
     ~FindAdjacentCommentRange(s, tok.range.end).ok

\* Every comment that follows a token of s is the annotation of that token
WellFormedAnnotations(s, cm) ==
  \A tok \in {TokensOf(s)[i] : i \in 1..Len(TokensOf(s))} :
     \E commentInfo \in {FindAdjacentCommentRange(s, tok.range.end)} :
        commentInfo.ok => GetText(s, commentInfo.range) = AnnotationOf(cm, tok)

\* The completed command h had its plan applied: the host did not turn down
\* a plan it could have taken.
Ran(h) == h.result # "rejected" \/ PlanOverlaps(h.before, h.plan)

\* Commands i and i + 1 of hist are annotate, then c
Pair(i, c) ==
  /\ hist[i].cmd = "annotate"
  /\ hist[i + 1].cmd = c
  /\ Ran(hist[i])
  /\ Ran(hist[i + 1])

\* C1 (amended): for a buffer in which no token is followed on its line by
\* optional whitespace and a block comment, annotate-all and then
\* remove-all-annotations give back the buffer, character for character.
C1_RoundTrip ==
  \A i \in 1..(Len(hist) - 1) :
     (Pair(i, "remove") /\ NoAdjacentComment(hist[i].before))
       => hist[i + 1].after = hist[i].before

\* C1 as stated: the round trip gives back every buffer whose annotations
\* are well-formed.
C1_RoundTripAsStated ==
  \A i \in 1..(Len(hist) - 1) :
     (Pair(i, "remove") /\ WellFormedAnnotations(hist[i].before, colorMap))
       => hist[i + 1].after = hist[i].before

\* C1: a buffer without comments was annotated and the annotations removed
C1_Witness ==
  \E i \in 1..(Len(hist) - 1) :
     /\ Pair(i, "remove")
     /\ NoAdjacentComment(hist[i].before)
     /\ hist[i].result = "applied"
     /\ hist[i].after # hist[i].before
     /\ hist[i + 1].result = "applied"
     /\ Len(hist[i + 1].plan) = 2
     /\ hist[i + 1].after = hist[i].before

\* C2: annotate-all run on the result of annotate-all builds no edit, and
\* so leaves that result as it is.
C2_AnnotateIdempotent ==
  \A i \in 1..(Len(hist) - 1) :
     Pair(i, "annotate")
       => hist[i + 1].plan = <<>> /\ hist[i + 1].after = hist[i].after

\* C3: no two ops of a submitted plan target overlapping spans, and no
\* Insert lies strictly inside the span of another op.
C3_NoOverlappingOps ==
  (pc = "applying" /\ nedits = 0) =>
    \A i, j \in 1..Len(plan) :
       i # j => \/ OffsetAt(doc, plan[i].range.end) <= OffsetAt(doc, plan[j].range.start)
                \/ OffsetAt(doc, plan[j].range.end) <= OffsetAt(doc, plan[i].range.start)

\* The alpha clause as it is written in the text t of a token: the
\* whitespace before the slash, the slash, and all up to the last character
\* of the value; nothing for a token without a slash.
AlphaClauseOf(t) ==
  IF \A k \in 1..Len(t) : t[k] # "/" THEN <<>>
  ELSE LET slash == CHOOSE k \in 1..Len(t) : t[k] = "/"
           first == CHOOSE p \in 1..slash :
                      /\ \A j \in p..(slash - 1) : t[j] \in WS
                      /\ (p = 1 \/ t[p - 1] \notin WS)
           last == CHOOSE q \in slash..Len(t) :
                     /\ t[q] \in AlphaCh
                     /\ \A j \in (q + 1)..Len(t) : t[j] \notin AlphaCh
       IN SubSeq(t, first, last)

\* The text that stands for a token written as t when it takes the colour
\* of entry e
Recoloured(e, t) ==
  OKLCH \o NumText(e.l) \o <<" ">> \o NumText(e.c) \o <<" ">> \o NumText(e.h)
        \o AlphaClauseOf(t) \o <<")">>

\* The ops of the plan that write a token
TokenOps == {i \in 1..Len(plan) : HasAt(plan[i].text, 1, OKLCH)}

\* C4: the text that replaces a token in replace-color and in
\* convert-gray-family is "oklch(" + the target's L, C, H + the alpha clause
\* of the token as it was written + ")"; a token without a clause gets none.
C4_AlphaFidelity ==
  /\ (pc = "applying" /\ cmd = "select") =>
        /\ TokenOps = {1}
        /\ plan[1].range = target.range
        /\ plan[1].text = Recoloured(colorMap[choice], GetText(scanText, target.range))
  /\ (pc = "applying" /\ cmd = "convert") =>
        /\ Cardinality(TokenOps) = count
        /\ \A i \in TokenOps :
              \E g \in 1..Len(parsed) :
                 /\ plan[i].range = parsed[g].range
                 /\ \E k \in 1..Len(colorMap) :
                       /\ colorMap[k].name = Named(GRAY_SCALE_NAMES[choice], parsed[g].shade)
                       /\ plan[i].text =
                            Recoloured(colorMap[k], GetText(scanText, parsed[g].range))

\* C4: a token with the clause " / 15%" is converted to Zinc 500
C4_Witness ==
  /\ pc = "applying"
  /\ cmd = "convert"
  /\ \E i \in 1..Len(plan) :
        plan[i].text = OKLCH \o <<"0", ".", "5", "5", "2", " ", "0", ".", "0", "1", "6",
                                  " ", "2", "8", "5", ".", "9", "3", "8", " ", "/", " ",
                                  "1", "5", "%", ")">>

\* The command ended by the step: the entry the step adds to hist
Ended(h, hNext) == Len(hNext) = Len(h) + 1 /\ SubSeq(hNext, 1, Len(h)) = h

\* C5: when the picker is dismissed the command ends with no op made, no
\* transaction submitted and the buffer as it was; when an item is picked
\* the transaction is submitted in the same step, with no suspension in
\* between; and the buffer changes under a command only when its submitted
\* transaction is resolved.
C5_Cancellation ==
  [][/\ (pc = "picking" /\ pc' # "picking" /\ choice' = 0) =>
          /\ pc' = "done"
          /\ plan' = <<>>
          /\ ~submitted'
          /\ doc' = doc
          /\ Ended(hist, hist')
          /\ hist'[Len(hist')].result = "cancelled"
          /\ hist'[Len(hist')].plan = <<>>
     /\ (pc = "picking" /\ pc' # "picking" /\ choice' # 0) =>
          /\ doc' = doc
          /\ \/ pc' = "applying" /\ submitted' /\ locText' = doc
             \/ pc' = "done" /\ ~submitted' /\ count' = 0
     /\ (doc' # doc /\ pc # "picking") => (pc = "applying" /\ submitted)]_vars

\* C5: the picker of replace-color was dismissed after the buffer had been
\* edited under it
C5_Witness ==
  /\ pc = "done"
  /\ cmd = "select"
  /\ nedits = 1
  /\ Len(hist) = 1
  /\ hist[1].result = "cancelled"
  /\ ~submitted
  /\ plan = <<>>

\* C6: every span of a plan submitted by replace-color or by
\* convert-gray-family is computed in one version of the text, the one the
\* transaction is applied to.
C6_SnapshotConsistency ==
  (pc = "applying" /\ cmd \in {"select", "convert"}) =>
     (scanText = doc /\ locText = doc)

\* Entry j of the palette is another entry than k, with c and h within the
\* tolerance of entry k's and l less than d away from entry k's
Near(k, j, d) ==
  /\ j # k
  /\ Abs(colorMap[j].l - colorMap[k].l) < d
  /\ Abs(colorMap[j].c - colorMap[k].c) < Epsilon
  /\ Abs(colorMap[j].h - colorMap[k].h) < Epsilon

\* The last lookup asked for entry k's colour with l moved up by dl
Shifted(dl) == query.k # 0 /\ query.dl = dl /\ query.dc = 0 /\ query.dh = 0

\* findName at entry k's own colour
OwnName(k) == FindColorName(colorMap, colorMap[k].l, colorMap[k].c, colorMap[k].h)

\* C7 (amended): for a palette entry (l,c,h) that has no entry of another
\* name within 0.00015 of it in l (c and h within the tolerance),
\* findName(l+0.00005, c, h) returns the name findName(l, c, h) returns;
\* and findName(l+0.0005, c, h) returns no match when no other entry lies
\* within 0.0006 of it in l.
C7_Tolerance ==
  /\ (/\ Shifted(Fine(5))
      /\ \A j \in 1..Len(colorMap) :
            Near(query.k, j, Fine(15)) => colorMap[j].name = colorMap[query.k].name)
       => found = OwnName(query.k) /\ found = colorMap[query.k].name
  /\ (/\ Shifted(Fine(50))
      /\ \A j \in 1..Len(colorMap) : ~Near(query.k, j, Fine(60)))
       => found = Null

\* C7 as stated: findName(l+0.00005, c, h) returns the name findName(l, c, h)
\* returns for every palette entry; findName(l+0.0005, c, h) returns no
\* match when no other entry matches that query.
C7_ToleranceAsStated ==
  /\ Shifted(Fine(5)) => found = OwnName(query.k)
  /\ (/\ Shifted(Fine(50))
      /\ \A j \in 1..Len(colorMap) :
            j # query.k => ~EntryMatches(colorMap[j], query.l, query.c, query.h))
       => found = Null

\* C7: an entry of a palette of two was looked up 0.00005 off, the other
\* entry being 0.00055 away
C7_Witness ==
  /\ Shifted(Fine(5))
  /\ Len(colorMap) = 2
  /\ colorMap[1].name # colorMap[2].name
  /\ Abs(colorMap[1].l - colorMap[2].l) = Fine(55)
  /\ found = colorMap[query.k].name

\* The entries each of whose components differs from the query's by less
\* than the tolerance
Passing ==
  {k \in 1..Len(colorMap) :
     /\ Abs(colorMap[k].l - query.l) < Epsilon
     /\ Abs(colorMap[k].c - query.c) < Epsilon
     /\ Abs(colorMap[k].h - query.h) < Epsilon}

\* C8: findName returns the name of the first entry, in palette order, that
\* passes the test on each of the three components, and no match when none
\* passes all three.
C8_FirstMatch ==
  query.k # 0 =>
    IF Passing = {} THEN found = Null
    ELSE \E k \in Passing : (\A j \in Passing : k <= j) /\ found = colorMap[k].name

\* C8: two entries of different names pass and the first is returned
C8_Witness ==
  /\ query.k = 2
  /\ Passing = {1, 2}
  /\ colorMap[1].name # colorMap[2].name
  /\ found = colorMap[1].name

\* round(alpha x 100): the whole number nearest to it, the upper one of two
Percent(alpha) ==
  CHOOSE n \in 0..((alpha * 100) \div Scale + 1) :
     2 * n * Scale - Scale <= 2 * alpha * 100 /\ 2 * alpha * 100 < 2 * n * Scale + Scale

\* " / P%" when the alpha is defined and at least 0.001 away from 1
PercentPart(alpha) ==
  IF alpha # Undef /\ Abs(alpha - Scale) >= Milli(1)
    THEN <<" ", "/", " ">> \o NatText(Percent(alpha)) \o <<"%">>
  ELSE <<>>

\* The comment text a token is to get
CommentFor(tok) ==
  LET name == FindColorName(colorMap, tok.l, tok.c, tok.h)
  IN <<"/", "*", " ">> \o (IF name = Null THEN Custom ELSE name)
       \o PercentPart(tok.alpha) \o <<" ", "*", "/">>

\* /* Custom / 15% */
CustomFifteen ==
  <<"/", "*", " ">> \o Custom \o <<" ", "/", " ", "1", "5", "%", " ", "*", "/">>

\* The token an op of annotate's plan belongs to: the one the op is put
\* after (an Insert) or the one whose adjacent comment it replaces
OpIsFor(op, tok) ==
  \/ op.kind = "insert" /\ op.range.start = tok.range.end
  \/ /\ op.kind = "replace"
     /\ FindAdjacentCommentRange(doc, tok.range.end).ok
     /\ op.range = FindAdjacentCommentRange(doc, tok.range.end).range

\* C9: the comment text annotate computes for a token is "/* N */", N the
\* token's palette name or "Custom" without a match, with " / P%" after N,
\* P = round(alpha x 100), exactly when the alpha is defined and at least
\* 0.001 away from 1; every op of annotate's plan writes that text; an
\* unmatched token with the clause " / 15%" gets "/* Custom / 15% */".
C9_AnnotationText ==
  (pc = "applying" /\ cmd = "annotate") =>
    \E toks \in {TokensOf(doc)} :
      /\ \A t \in 1..Len(toks) :
            /\ AnnotationOf(colorMap, toks[t]) = CommentFor(toks[t])
            /\ (/\ FindColorName(colorMap, toks[t].l, toks[t].c, toks[t].h) = Null
                /\ toks[t].alphaString = <<" ", "/", " ", "1", "5", "%">>)
                 => AnnotationOf(colorMap, toks[t]) = CustomFifteen
      /\ \A i \in 1..Len(plan) :
            \E t \in 1..Len(toks) :
               /\ OpIsFor(plan[i], toks[t])
               /\ plan[i].text = (IF plan[i].kind = "insert" THEN <<" ">> ELSE <<>>)
                                   \o CommentFor(toks[t])

\* C9: annotate puts "/* Custom / 15% */" after an unmatched token and
\* "/* White */", with no percentage, after a token with an alpha of 0.9995
C9_Witness ==
  /\ pc = "applying"
  /\ cmd = "annotate"
  /\ \E i \in 1..Len(plan) : plan[i].text = <<" ">> \o CustomFifteen
  /\ \E i \in 1..Len(plan), t \in 1..Len(TokensOf(doc)) :
        /\ TokensOf(doc)[t].alpha = Scale - Fine(50)
        /\ plan[i].range.start = TokensOf(doc)[t].range.end
        /\ plan[i].text = WhiteComment

\* The block comment that follows the end of a token on its line, after
\* whitespace only: <<w, e>> when the comment takes the characters w + 1 to
\* e + 1 of the rest of the line
CommentsAfter(rest) ==
  {we \in (0..Len(rest)) \X (1..Len(rest)) :
     /\ \A j \in 1..we[1] : rest[j] \in WS
     /\ we[1] + 2 <= Len(rest) /\ rest[we[1] + 1] = "/" /\ rest[we[1] + 2] = "*"
     /\ we[2] >= we[1] + 3 /\ we[2] < Len(rest)
     /\ rest[we[2]] = "*" /\ rest[we[2] + 1] = "/"
     /\ \A j \in (we[1] + 3)..(we[2] - 1) : ~(rest[j] = "*" /\ rest[j + 1] = "/")}

\* The edit annotate is to make for a token of the text s
OutcomeFor(s, tok) ==
  LET line == tok.range.end.line
      ch == tok.range.end.ch
      rest == Substring(LineText(s, line), ch)
      text == CommentFor(tok)
  IN IF CommentsAfter(rest) = {} THEN <<Insert(tok.range.end, <<" ">> \o text)>>
     ELSE LET we == CHOOSE x \in CommentsAfter(rest) : TRUE
          IN IF SubSeq(rest, we[1] + 1, we[2] + 1) = text THEN <<>>
             ELSE <<Replace(Range(Pos(line, ch + we[1]), Pos(line, ch + we[2] + 1)), text)>>

\* The outcomes for the tokens i, i - 1, ..., 1
RECURSIVE Outcomes(_, _, _)
Outcomes(s, toks, i) ==
  IF i = 0 THEN <<>> ELSE OutcomeFor(s, toks[i]) \o Outcomes(s, toks, i - 1)

\* color: oklch(0.985 0 0) /* White */;
LineWhiteAnnotated ==
  <<"c", "o", "l", "o", "r", ":", " ">> \o TokWhite \o WhiteComment \o <<";">>

\* C10: annotate's plan holds for each token no edit when the adjacent
\* comment has the computed text, a Replace of the comment alone when an
\* adjacent comment has another text, and an Insert of a space and the
\* computed text at the token's end when no comment is adjacent; the line
\* "color: oklch(0.985 0 0);" becomes "color: oklch(0.985 0 0) /* White */;".
C10_AnnotateOutcomes ==
  /\ (pc = "applying" /\ cmd = "annotate") =>
        \E toks \in {TokensOf(doc)} : plan = Outcomes(doc, toks, Len(toks))
  /\ (pc = "done" /\ cmd = "annotate" /\ applied /\ doc0 = LineWhite) =>
        doc = LineWhiteAnnotated

\* C10: the line "color: oklch(0.985 0 0);" was annotated
C10_Witness ==
  /\ pc = "done"
  /\ cmd = "annotate"
  /\ applied
  /\ doc0 = LineWhite
  /\ doc = LineWhiteAnnotated

\* "/* N */" or "/* N / P% */" for the name N and the alpha
CommentText(name, alpha) ==
  <<"/", "*", " ">> \o name \o PercentPart(alpha) \o <<" ", "*", "/">>

\* The comment edit made for a token that ends at endPos of the text s and
\* is to carry the comment text: by annotate's rules (an Insert without an
\* adjacent comment, a Replace of one that differs, nothing for one that is
\* equal), or else a Replace of the adjacent comment whenever there is one.
CommentEdit(asAnnotate, s, endPos, text) ==
  LET rest == Substring(LineText(s, endPos.line), endPos.ch)
  IN IF CommentsAfter(rest) = {}
       THEN IF asAnnotate THEN <<Insert(endPos, <<" ">> \o text)>> ELSE <<>>
     ELSE LET we == CHOOSE x \in CommentsAfter(rest) : TRUE
          IN IF asAnnotate /\ SubSeq(rest, we[1] + 1, we[2] + 1) = text THEN <<>>
             ELSE <<Replace(Range(Pos(endPos.line, endPos.ch + we[1]),
                                  Pos(endPos.line, endPos.ch + we[2] + 1)), text)>>

\* The alpha of the token of the scanned text that has the range r
AlphaAt(r) ==
  LET toks == TokensOf(scanText)
  IN toks[CHOOSE t \in 1..Len(toks) : toks[t].range = r].alpha

\* The palette entry convert-gray-family takes for the gray token g
TargetEntries(g) ==
  {k \in 1..Len(colorMap) : colorMap[k].name = Named(GRAY_SCALE_NAMES[choice], g.shade)}

\* The ops convert-gray-family is to make for the gray tokens i, ..., 1
RECURSIVE ConvertOps(_, _)
ConvertOps(asAnnotate, i) ==
  IF i = 0 THEN <<>>
  ELSE (IF TargetEntries(parsed[i]) = {} THEN <<>>
        ELSE LET k == CHOOSE x \in TargetEntries(parsed[i]) :
                        \A y \in TargetEntries(parsed[i]) : x <= y
             IN <<Replace(parsed[i].range,
                          Recoloured(colorMap[k], GetText(scanText, parsed[i].range)))>>
                  \o CommentEdit(asAnnotate, doc, parsed[i].range.end,
                                 CommentText(colorMap[k].name, parsed[i].alpha)))
       \o ConvertOps(asAnnotate, i - 1)

\* The ops replace-color is to make
SelectOps(asAnnotate) ==
  <<Replace(target.range,
            Recoloured(colorMap[choice], GetText(scanText, target.range)))>>
    \o CommentEdit(asAnnotate, doc, target.range.end,
                   CommentText(colorMap[choice].name, AlphaAt(target.range)))

\* C11 (amended): replace-color and convert-gray-family emit, with the
\* Replace of the token span, a Replace of the comment adjacent to the
\* token's end in the buffer as it is when the picker resolves, by the
\* annotation of the new name, whenever there is such a comment (also when
\* it has that text already), and no comment edit when there is none.
C11_CommentUpdate ==
  /\ (pc = "applying" /\ cmd = "select") => plan = SelectOps(FALSE)
  /\ (pc = "applying" /\ cmd = "convert") => plan = ConvertOps(FALSE, Len(parsed))

\* C11 as stated: the comment edit follows annotate's rules for the new
\* name: an Insert without an adjacent comment, a Replace of one that
\* differs, none for one that is equal.
C11_CommentAsAnnotate ==
  /\ (pc = "applying" /\ cmd = "select" /\ nedits = 0) => plan = SelectOps(TRUE)
  /\ (pc = "applying" /\ cmd = "convert" /\ nedits = 0) =>
        plan = ConvertOps(TRUE, Len(parsed))

\* C11: replace-color wrote the new name over the comment of its token
C11_Witness ==
  /\ pc = "applying"
  /\ cmd = "select"
  /\ Len(plan) = 2
  /\ plan[2].kind = "replace"
  /\ plan[2].text = <<"/", "*", " ">> \o Named(Zinc, Shade500) \o <<" ", "*", "/">>
  /\ GetText(doc, plan[2].range) = <<"/", "*", " ">> \o White \o <<" ", "*", "/">>

\* The gray tokens kept by convert-gray-family whose target entry exists
Convertible == {g \in 1..Len(parsed) : TargetEntries(parsed[g]) # {}}

\* oklch(0.552 0.016 285.938 / 15%); and the Slate 700 line as it was
LinesGrayToZinc ==
  OKLCH \o <<"0", ".", "5", "5", "2", " ", "0", ".", "0", "1", "6", " ",
             "2", "8", "5", ".", "9", "3", "8", " ", "/", " ", "1", "5", "%", ")">>
        \o <<";", "\n">> \o TokSlate700 \o <<";", "\n">>

\* C12: convert-gray-family replaces each gray token whose target entry
\* exists and skips, with no error, each token whose target entry is
\* missing; the count is the number of replaced tokens; when every token is
\* skipped nothing is submitted; Slate 500 and Slate 700 to Zinc without a
\* Zinc 700 entry gives one conversion, one skip and a count of 1.
C12_PartialBatch ==
  /\ (pc = "applying" /\ cmd = "convert") =>
        /\ count = Cardinality(Convertible)
        /\ count = Cardinality(TokenOps)
        /\ count > 0
        /\ \A g \in 1..Len(parsed) :
              (g \in Convertible) <=>
                 (\E i \in TokenOps : plan[i].range = parsed[g].range)
  /\ (pc = "done" /\ cmd = "convert" /\ choice # 0 /\ ~submitted) =>
        /\ Convertible = {}
        /\ count = 0
        /\ plan = <<>>
        /\ doc = doc0 \/ nedits > 0
        /\ msg = "No colors were converted (target shades might be missing)."
  /\ (cmd = "convert" /\ choice = 3 /\ doc0 = LinesGray /\ nedits = 0
        /\ colorMap = PaletteFull) =>
        /\ count = 1
        /\ Len(parsed) = 2
        /\ pc = "applying" => Len(plan) = 1 /\ plan[1].range = parsed[1].range
        /\ (pc = "done" /\ applied) =>
              doc = LinesGrayToZinc /\ msg = "Converted N gray scale color(s)."

\* C12: Slate 500 and Slate 700 were converted to Zinc without a Zinc 700
\* entry
C12_Witness ==
  /\ cmd = "convert"
  /\ choice = 3
  /\ doc0 = LinesGray
  /\ pc = "done"
  /\ applied
  /\ count = 1
  /\ doc = LinesGrayToZinc

\* The L, C and H numerals as they are written in the text t of a token
NumeralsOf(t) ==
  LET a1 == RunEnd(t, Len(OKLCH) + 1, WS)
      b1 == RunEnd(t, a1, NumCh)
      a2 == RunEnd(t, b1, WS)
      b2 == RunEnd(t, a2, NumCh)
      a3 == RunEnd(t, b2, WS)
      b3 == RunEnd(t, a3, NumCh)
  IN <<SubSeq(t, a1, b1 - 1), SubSeq(t, a2, b2 - 1), SubSeq(t, a3, b3 - 1)>>

\* The numerals of a palette entry as the program writes them
NumeralsOfEntry(e) == <<NumText(e.l), NumText(e.c), NumText(e.h)>>

\* The first palette entry of the name
FirstNamed(name) ==
  colorMap[CHOOSE k \in 1..Len(colorMap) :
             /\ colorMap[k].name = name
             /\ \A j \in 1..(k - 1) : colorMap[j].name # name]

\* Convert-gray-family has submitted a conversion to the family that all
\* its gray tokens have
SameFamily ==
  /\ pc = "applying"
  /\ cmd = "convert"
  /\ nedits = 0
  /\ \A g \in 1..Len(parsed) :
        HasAt(parsed[g].originalName, 1, GRAY_SCALE_NAMES[choice] \o <<" ">>)

\* C13 (amended): converting gray tokens of family F to F leaves the L, C,
\* H numerals of a converted token as they were when the token is written
\* with exactly the numerals of the first palette entry that bears the name
\* findName resolved for it.
C13_GrayClosure ==
  SameFamily =>
    \A g \in 1..Len(parsed) :
       \E i \in TokenOps :
          /\ plan[i].range = parsed[g].range
          /\ NumeralsOf(plan[i].text) = NumeralsOfEntry(FirstNamed(parsed[g].originalName))
          /\ NumeralsOf(GetText(doc, parsed[g].range))
               = NumeralsOfEntry(FirstNamed(parsed[g].originalName))
                => NumeralsOf(plan[i].text) = NumeralsOf(GetText(doc, parsed[g].range))

\* C13 as stated: the numerals of every converted token stay as they were.
C13_GrayClosureAsStated ==
  SameFamily =>
    \A g \in 1..Len(parsed) :
       \E i \in TokenOps :
          /\ plan[i].range = parsed[g].range
          /\ NumeralsOf(plan[i].text) = NumeralsOf(GetText(doc, parsed[g].range))

\* C13: a Slate 500 token annotated as White was converted to Slate; its
\* numerals stayed and its annotation was rewritten
C13_Witness ==
  /\ cmd = "convert"
  /\ choice = 1
  /\ pc = "done"
  /\ applied
  /\ doc0 = TokSlateAlpha \o WhiteComment
  /\ doc = TokSlateAlpha \o <<" ", "/", "*", " ">> \o Named(Slate, Shade500)
              \o <<" ", "/", " ", "1", "5", "%", " ", "*", "/">>

\* The Delete remove-annotation is to make for a token of the text s: from
\* the token's end to the end of the comment that follows the whitespace
DeleteFor(s, tok) ==
  LET line == tok.range.end.line
      ch == tok.range.end.ch
      rest == Substring(LineText(s, line), ch)
  IN IF CommentsAfter(rest) = {} THEN <<>>
     ELSE LET we == CHOOSE x \in CommentsAfter(rest) : TRUE
          IN <<Delete(Range(Pos(line, ch), Pos(line, ch + we[2] + 1)))>>

\* The tokens of the text s that have an adjacent block comment
Commented(s) == {g \in 1..Len(TokensOf(s)) : DeleteFor(s, TokensOf(s)[g]) # <<>>}

\* C14: remove-annotation emits exactly one Delete, of the whitespace run and
\* the comment, for each token with an adjacent block comment and no edit
\* for another token; the count is the number of Deletes; a run with no
\* token and a run with tokens but no deletion report two different
\* outcomes, and neither submits a transaction.
C14_RemoveOutcomes ==
  /\ (cmd = "remove" /\ pc = "applying") =>
        /\ Commented(doc) # {}
        /\ Len(plan) = Cardinality(Commented(doc))
        /\ count = Len(plan)
        /\ \A g \in 1..Len(TokensOf(doc)) :
              LET here == {i \in 1..Len(plan) :
                             plan[i].range.start = TokensOf(doc)[g].range.end}
              IN IF g \in Commented(doc)
                   THEN \E i \in here :
                          /\ here = {i}
                          /\ <<plan[i]>> = DeleteFor(doc, TokensOf(doc)[g])
                 ELSE here = {}
  /\ (cmd = "remove" /\ pc = "done" /\ editor /\ ~submitted) =>
        /\ Commented(doc) = {}
        /\ plan = <<>>
        /\ ~applied
        /\ doc = doc0
        /\ msg = (IF TokensOf(doc) = <<>> THEN "No OKLCH colors found."
                  ELSE "No OKLCH Annotations found to remove.")
  /\ (cmd = "remove" /\ pc = "done" /\ submitted) => Commented(doc0) # {}

\* C14: remove-annotation submitted one Delete for a text of two tokens, one
\* of which is annotated
C14_Witness ==
  /\ cmd = "remove"
  /\ pc = "applying"
  /\ Len(TokensOf(doc)) = 2
  /\ Cardinality(Commented(doc)) = 1
  /\ Len(plan) = 1

\* The messages shown with showErrorMessage after a failed applyEdit
FailureMessages ==
  {"Failed to apply annotations.", "Failed to remove annotations.",
   "Failed to apply gray scale conversion."}

\* C15: when the host rejects the transaction of annotate, remove-annotation,
\* replace-color or convert-gray-family, the command ends in a user-visible
\* error outcome and never in a success report.
C15_TransactionFailure ==
  (pc = "done" /\ submitted /\ ~applied) => msg \in FailureMessages

\* map.json is a well-formed sequence of {name, oklch: {l, c, h}} records
WellFormedMap ==
  /\ mapFile.kind = "array"
  /\ \A k \in 1..Len(mapFile.items) :
        ~Raises(mapFile.items[k]) /\ mapFile.items[k].l # Undef

\* C16: when map.json is unreadable or is not a well-formed sequence of
\* records, load reports it and leaves a palette on which no lookup raises
\* and every lookup misses: hover returns nothing and annotate labels
\* every token Custom.
C16_LoadRecoverable ==
  (pc # "inactive" /\ ~WellFormedMap) =>
    /\ loadError
    /\ ~thrown
    /\ hover = Null
    /\ (cmd = "annotate" /\ pc = "applying") =>
          /\ Len(plan) = Len(TokensOf(doc))
          /\ \A i \in 1..Len(plan) :
                \E alpha \in {Undef} \cup {TokensOf(doc)[g].alpha : g \in 1..Len(TokensOf(doc))} :
                   plan[i].text \in {CommentText(Custom, alpha),
                                     <<" ">> \o CommentText(Custom, alpha)}

\* x is a decimal numeral: digits with at most one decimal point
Numeral(x) ==
  /\ \E k \in 1..Len(x) : x[k] \in Digit
  /\ \A k \in 1..Len(x) : x[k] \in NumCh
  /\ Cardinality({k \in 1..Len(x) : x[k] = "."}) <= 1

\* The value of an alpha clause as it is written: what follows the slash
\* and the whitespace after it
AlphaValueOf(clause) ==
  LET slash == CHOOSE k \in 1..Len(clause) : clause[k] = "/"
  IN SubSeq(clause, RunEnd(clause, slash + 1, WS), Len(clause))

\* The number an alpha value written as v stands for, when it stands for one
Denotes(v, alpha) ==
  \/ Numeral(v) /\ alpha = ParseFloat(v)
  \/ /\ v[Len(v)] = "%"
     /\ Numeral(SubSeq(v, 1, Len(v) - 1))
     /\ alpha = ParseFloat(SubSeq(v, 1, Len(v) - 1)) \div 100

\* The alpha values of ScanAlphas that stand for no finite number
NotFinite == {<<".">>, <<"%">>, Nines}

\* The scanned document opens with a literal whose alpha value is v
OpensWith(v) ==
  \E l \in ScanLs, a \in ScanAlphas :
     /\ a # <<>>
     /\ AlphaValueOf(a) = v
     /\ HasAt(doc, 1, OKLCH \o l \o <<" ", "0", " ", "0">> \o a \o <<")">>)

\* The scan covered the document's first line, its last line
CoversFirst == HasAt(scanText, 1, OKLCH) /\ ~HasAt(scanText, 1, TokWhite)

CoversLast ==
  LineCount(doc) = 2 /\ HasAt(scanText, Len(scanText) - Len(TokWhite) + 1, TokWhite)

\* C17: a token of a scan has neither an alpha clause nor an alpha, or both
\* with the alpha a finite number that the clause denotes; a literal whose
\* alpha clause yields no finite number gives no token, and the tokens
\* after it are still returned.
C17_AlphaInvariant ==
  (pc = "done" /\ cmd = "scan") =>
    /\ \A g \in 1..Len(parsed) :
          \/ parsed[g].alphaString = NoText /\ parsed[g].alpha = Undef
          \/ /\ parsed[g].alphaString # NoText
             /\ parsed[g].alpha >= 0
             /\ Denotes(AlphaValueOf(parsed[g].alphaString), parsed[g].alpha)
    /\ (CoversFirst /\ \E v \in NotFinite : OpensWith(v)) =>
          \A g \in 1..Len(parsed) : parsed[g].range.start # Pos(0, 0)
    /\ CoversLast =>
          \E g \in 1..Len(parsed) :
             /\ parsed[g].range.start = Pos(1, 0)
             /\ GetText(doc, parsed[g].range) = TokWhite

\* C18: a scan returns a token only for text of the form oklch( L C H [/ A] )
\* in which L, C and H are decimal numerals and A is a decimal numeral or
\* one followed by a single percent sign.
C18_ScanGrammar ==
  (pc = "done" /\ cmd = "scan") =>
    \A g \in 1..Len(parsed) :
       LET text == GetText(doc, parsed[g].range)
       IN /\ \A k \in 1..3 : Numeral(NumeralsOf(text)[k])
          /\ parsed[g].alphaString # NoText =>
                LET v == AlphaValueOf(parsed[g].alphaString)
                IN Numeral(v) \/ (v[Len(v)] = "%" /\ Numeral(SubSeq(v, 1, Len(v) - 1)))

\* The names of the palettes that are a gray family followed by a shade
GrayNames ==
  {Named(GRAY_SCALE_NAMES[k], sh) : k \in 1..Len(GRAY_SCALE_NAMES), sh \in {Shade500, Shade700}}

\* The tokens of the text s that findColorName resolves to such a name
GrayNamed(s) ==
  {g \in 1..Len(TokensOf(s)) :
     FindColorName(colorMap, TokensOf(s)[g].l, TokensOf(s)[g].c, TokensOf(s)[g].h)
       \in GrayNames}

\* The command ended having built no edit, opened no picker and submitted
\* nothing
Quiet ==
  /\ pc = "done"
  /\ plan = <<>>
  /\ ~submitted
  /\ ~applied
  /\ doc = doc0
  /\ choice = 0
  /\ hist[Len(hist)].result = "nothing"

\* C19: without an active editor, or with no token (annotate, remove), or
\* with no token of a gray-family name with a shade (convert), the command
\* reports the condition and ends without an edit, without the picker and
\* without a transaction.
C19_NoQualifyingInput ==
  /\ (~editor /\ pc # "idle") => Quiet /\ msg = "No active editor found."
  /\ (editor /\ pc # "idle" /\ cmd = "annotate" /\ TokensOf(doc0) = <<>>)
        => Quiet /\ msg = "No OKLCH colors found to annotate."
  /\ (editor /\ pc # "idle" /\ cmd = "remove" /\ TokensOf(doc0) = <<>>)
        => Quiet /\ msg = "No OKLCH colors found."
  /\ (editor /\ pc # "idle" /\ cmd = "convert" /\ GrayNamed(doc0) = {})
        => Quiet /\ msg = "No recognized Tailwind gray scale colors found to convert."

\* C19: convert-gray-family ended on a text that has a token, none of them
\* of a gray family
C19_Witness ==
  /\ cmd = "convert"
  /\ pc = "done"
  /\ TokensOf(doc0) # <<>>
  /\ GrayNamed(doc0) = {}
  /\ msg = "No recognized Tailwind gray scale colors found to convert."

\* The tokens toks stand in ascending order and do not overlap
Ascending(toks) ==
  \A g, h \in 1..Len(toks) :
     g < h => /\ PosBefore(toks[g].range.start, toks[g].range.end)
              /\ PosBeforeOrEqual(toks[g].range.end, toks[h].range.start)

\* The ops i..j of the plan stand in descending order of their start
Descending(ops) ==
  \A i, j \in ops : i < j => PosBefore(plan[j].range.start, plan[i].range.start)

\* C20 (amended): a scan returns its tokens in ascending order without
\* overlap; the ops of a plan of annotate and of remove-annotation stand
\* in descending order of start offset; in a plan of convert-gray-family
\* the color Replaces stand in descending order of start offset, and the
\* comment Replace of a token stands right after the color Replace of that
\* token, at a greater start offset.
C20_DescendingOrder ==
  /\ Ascending(TokensOf(doc))
  /\ Ascending(parsed)
  /\ (pc = "applying" /\ cmd \in {"annotate", "remove"}) => Descending(1..Len(plan))
  /\ (pc = "applying" /\ cmd = "convert") =>
        /\ Descending(TokenOps)
        /\ \A i \in (1..Len(plan)) \ TokenOps :
              /\ i - 1 \in TokenOps
              /\ plan[i - 1].range.end.line = plan[i].range.start.line
              /\ PosBeforeOrEqual(plan[i - 1].range.end, plan[i].range.start)
              /\ \A j \in 1..(i - 2) : PosBefore(plan[i].range.start, plan[j].range.start)

\* C20 as stated: the ops of every plan of annotate, remove-annotation and
\* convert-gray-family stand in descending order of start offset.
C20_DescendingAsStated ==
  (pc = "applying" /\ cmd \in {"annotate", "remove", "convert"})
    => Descending(1..Len(plan))

\* C20: convert-gray-family submitted a plan for two tokens, one of them
\* with an adjacent comment
C20_Witness ==
  /\ pc = "applying"
  /\ cmd = "convert"
  /\ Cardinality(TokenOps) = 2
  /\ Len(plan) = 3

\* C21: the count a batch operation reports on success is the number of
\* tokens for which it emitted an edit: the ops of annotate and of
\* remove-annotation, the color Replaces of convert-gray-family; annotate
\* on a text whose tokens are all annotated as they should be reports no
\* positive count.
C21_ReportedCounts ==
  (pc = "done" /\ submitted /\ applied) =>
    /\ cmd \in {"annotate", "remove"} => count = Len(plan)
    /\ cmd = "convert" => count = Cardinality(TokenOps)

\* The P of the " / P%" suffix a hover or annotation text carries, nothing
\* when it carries none
PercentOf(text) ==
  IF \A k \in 1..Len(text) : text[k] # "%" THEN <<>>
  ELSE LET at == CHOOSE k \in 1..Len(text) : text[k] = "%"
           from == CHOOSE a \in 1..at :
                     /\ \A j \in a..(at - 1) : text[j] \in Digit
                     /\ (a = 1 \/ text[a - 1] \notin Digit)
       IN SubSeq(text, from, at - 1)

\* The token of the document the hover was given for
Hovered == CHOOSE g \in 1..Len(TokensOf(doc)) : TokensOf(doc)[g].range = hover.range

\* C22: the hover text of a named token carries a " / P%" suffix exactly
\* when the annotation text computed for the token carries one, with the
\* same P, and neither shows " / 100%".
C22_HoverAgrees ==
  (pc = "done" /\ cmd = "hover" /\ hover # Null) =>
    LET tok == TokensOf(doc)[Hovered]
        name == FindColorName(colorMap, tok.l, tok.c, tok.h)
        annotation == CreateAnnotationComment(name, tok.alpha)
    IN /\ PercentOf(hover.text) = PercentOf(annotation)
       /\ PercentOf(hover.text) # <<"1", "0", "0">>
       /\ PercentOf(annotation) # <<"1", "0", "0">>

====
